---- MODULE Spec2Model ----
(***************************************************************************)
(* Content pipeline of the Hacker News MCP server (app/server.py):         *)
(* get_item, fetch_url_content, extract_main_content, html_to_markdown,    *)
(* get_story_content and get_story_content_by_title.                       *)
(*                                                                         *)
(* Encoding of Python values                                               *)
(*   Optional[T]   a sequence of length <= 1: None is << >>, a value x is   *)
(*                 << x >>                                                 *)
(*   markup / str  a string that can become `content` is a sequence of     *)
(*                 nodes in document order; the empty string is << >>      *)
(*   other str     TLA+ strings                                            *)
(***************************************************************************)
EXTENDS Integers, Sequences, FiniteSets, TLC

\* ----- bounds of the model -----

\* story ids are 1..MaxStory
MaxStory == 2

StoryIds == 1..MaxStory

\* the call slots: the tool invocations that can be in flight together
Inv == {"c1"}

\* ----- Optional[T] -----

None == << >>
Some(x) == << x >>
\* Python truthiness of an Optional[str] whose empty value is `empty`
Truthy(opt, empty) == opt # None /\ opt[1] # empty
\* Python `opt or default`
OrElse(opt, empty, default) == IF Truthy(opt, empty) THEN opt[1] ELSE default

\* ----- markup -----

\* an element (or text run) of a document: tag, set of classes, id, index of
\* the parent element in the document (0 at top level) and its own text
Node(tag, cls, id, parent, txt) ==
    [tag |-> tag, cls |-> cls, id |-> id, parent |-> parent, txt |-> txt]

\* a plain (non-markup) string
Str(s) == << Node("#text", {}, "", 0, s) >>
EmptyStr == << >>

\* a page with navigation, an article holding a script, and a sidebar
PageArticle ==
    << Node("html", {}, "", 0, ""),
       Node("body", {}, "", 1, ""),
       Node("nav", {}, "", 2, "Menu"),
       Node("article", {}, "", 2, "Hello world"),
       Node("script", {}, "", 4, "track()"),
       Node("div", {"sidebar"}, "", 2, "Related") >>

\* a page with a body but no content container
PageBody ==
    << Node("body", {}, "", 0, ""),
       Node("p", {}, "", 1, "Plain"),
       Node("div", {"comments"}, "", 1, "First!"),
       Node("div", {}, "", 1, "More") >>

\* markup the HTML parser rejects (BeautifulSoup raises on it)
PageRejected ==
    << Node("p", {}, "", 0, "before"),
       Node("#rejected", {}, "", 0, "<![") >>

\* markup on which html2text raises
PageCrash ==
    << Node("main", {}, "", 0, "intro"),
       Node("#crash", {}, "", 1, "") >>

\* a JSON document
BodyJson == Str("{\"k\": 1}")

Bodies == {PageArticle, PageBody, PageRejected, PageCrash, BodyJson, EmptyStr}

\* ----- extract_main_content -----

\* variant: scripts are not selected for removal
RemovedTags_NoScript == {"nav", "header", "footer", "aside", "style", "iframe"}

RemovedTags == {"nav", "header", "footer", "aside", "script", "style", "iframe"}
RemovedClasses == {"ads", "navigation", "menu", "sidebar", "comments"}

\* variant: the class selectors are missing from the removal
MatchesRemoved_TagsOnly(n) == n.tag \in RemovedTags

\* 'nav, header, ..., .ads, .navigation, .menu, .sidebar, .comments'
MatchesRemoved(n) == n.tag \in RemovedTags \/ n.cls \cap RemovedClasses # {}

\* the selectors probed for the main content, in priority order
ContentSelectors ==
    << [by |-> "tag", v |-> "article"], [by |-> "tag", v |-> "main"],
       [by |-> "class", v |-> "content"], [by |-> "class", v |-> "post"],
       [by |-> "class", v |-> "article"], [by |-> "id", v |-> "content"],
       [by |-> "id", v |-> "main"] >>

IsElement(n) == n.tag \notin {"#text", "#rejected", "#crash"}

Matches(n, sel) ==
    /\ IsElement(n)
    /\ CASE sel.by = "tag" -> n.tag = sel.v
         [] sel.by = "class" -> sel.v \in n.cls
         [] sel.by = "id" -> n.id = sel.v

RECURSIVE InSubtree(_, _, _)
\* node i is r or a descendant of r
InSubtree(doc, i, r) ==
    IF i = r THEN TRUE
    ELSE IF i = 0 \/ doc[i].parent = 0 THEN FALSE
    ELSE InSubtree(doc, doc[i].parent, r)

\* element.decompose() for every selected element: the element and its subtree go
Decomposed(doc) ==
    {i \in DOMAIN doc :
        \E r \in DOMAIN doc : IsElement(doc[r]) /\ MatchesRemoved(doc[r]) /\ InSubtree(doc, i, r)}

Min(S) == CHOOSE x \in S : \A y \in S : x <= y

\* soup.select_one(selector) over the nodes `live`: first match in document
\* order, 0 for no match
SelectOne(doc, live, sel) ==
    LET hits == {i \in live : Matches(doc[i], sel)}
    IN IF hits = {} THEN 0 ELSE Min(hits)

\* variant: the element first in the document among those any selector from
\* position k on matches
FirstSelected_DocumentOrder(doc, live, k) ==
    LET hits == {i \in live : \E j \in k..Len(ContentSelectors) :
                                Matches(doc[i], ContentSelectors[j])}
    IN IF hits = {} THEN 0 ELSE Min(hits)

RECURSIVE FirstSelected(_, _, _)
\* the loop over the selectors from position k: first selector with a match wins
FirstSelected(doc, live, k) ==
    IF k > Len(ContentSelectors) THEN 0
    ELSE IF SelectOne(doc, live, ContentSelectors[k]) # 0
         THEN SelectOne(doc, live, ContentSelectors[k])
         ELSE FirstSelected(doc, live, k + 1)

\* str(...) of the nodes `keep` of doc: kept in document order, parents
\* renumbered, a node whose parent is not kept becomes top level
Serialize(doc, keep) ==
    LET idx == [k \in 1..Cardinality(keep) |->
                    CHOOSE i \in keep : Cardinality({j \in keep : j <= i}) = k]
        rank(i) == Cardinality({j \in keep : j <= i})
    IN [k \in 1..Cardinality(keep) |->
            LET n == doc[idx[k]]
            IN [n EXCEPT !.parent = IF n.parent \in keep THEN rank(n.parent) ELSE 0]]

\* BeautifulSoup(html_content, 'html.parser') raises on this markup
ParserRaises(doc) == \E i \in DOMAIN doc : doc[i].tag = "#rejected"

\* variant: without the body step, all that is left is returned
extract_main_content_NoBody(html_content) ==
    IF ParserRaises(html_content) THEN html_content
    ELSE LET live == DOMAIN html_content \ Decomposed(html_content)
             main_content == FirstSelected(html_content, live, 1)
         IN IF main_content # 0
            THEN Serialize(html_content,
                           {i \in live : InSubtree(html_content, i, main_content)})
            ELSE Serialize(html_content, live)

\* variant: the handler returns an empty string
extract_main_content_EmptyOnError(html_content) ==
    IF ParserRaises(html_content) THEN EmptyStr
    ELSE LET live == DOMAIN html_content \ Decomposed(html_content)
             main_content == FirstSelected(html_content, live, 1)
             body == SelectOne(html_content, live, [by |-> "tag", v |-> "body"])
         IN IF main_content # 0
            THEN Serialize(html_content,
                           {i \in live : InSubtree(html_content, i, main_content)})
            ELSE IF body # 0
                 THEN Serialize(html_content,
                                {i \in live : InSubtree(html_content, i, body)})
                 ELSE Serialize(html_content, live)

extract_main_content(html_content) ==
    IF ParserRaises(html_content) THEN html_content
    ELSE LET live == DOMAIN html_content \ Decomposed(html_content)
             main_content == FirstSelected(html_content, live, 1)
             body == SelectOne(html_content, live, [by |-> "tag", v |-> "body"])
         IN IF main_content # 0
            THEN Serialize(html_content,
                           {i \in live : InSubtree(html_content, i, main_content)})
            ELSE IF body # 0
                 THEN Serialize(html_content,
                                {i \in live : InSubtree(html_content, i, body)})
                 ELSE Serialize(html_content, live)

\* ----- the documents extract_main_content is tried on -----

\* the longest document tried, in nodes
MaxNodes == 3

\* what a node of a tried document can be: << tag, classes, id, text >>
NodeKinds ==
    { << "nav", {}, "", "Menu" >>,
      << "script", {}, "", "track()" >>,
      << "article", {}, "", "Hello world" >>,
      << "article", {}, "", "Other" >>,
      << "main", {}, "", "Main" >>,
      << "div", {"post"}, "", "Post" >>,
      << "section", {}, "content", "Story" >>,
      << "div", {"ads"}, "", "Buy" >>,
      << "div", {}, "sidebar", "Side" >>,
      << "body", {}, "", "" >>,
      << "p", {}, "", "Plain" >>,
      << "#rejected", {}, "", "<![" >> }

\* html.parser reads the inside of a script as text, and what it rejects has
\* no inside
HoldsElements(n) == IsElement(n) /\ n.tag # "script"

RECURSIVE OnPath(_, _, _)
\* with the parents ps, node r is node i or one of its ancestors
OnPath(ps, i, r) ==
    IF i = r THEN TRUE
    ELSE IF i = 0 THEN FALSE
    ELSE OnPath(ps, ps[i], r)

\* the parents of n nodes in document order: a node hangs at top level, under
\* the node before it or under one of that node's ancestors
Shapes(n) ==
    {ps \in [1..n -> 0..(n - 1)] :
        \A k \in 1..n : ps[k] < k /\ (ps[k] = 0 \/ OnPath(ps, k - 1, ps[k]))}

\* the document of the nodes ks hung as ps says
Doc(ks, ps) ==
    [k \in DOMAIN ks |-> Node(ks[k][1], ks[k][2], ks[k][3], ps[k], ks[k][4])]

WellFormed(doc) ==
    \A k \in DOMAIN doc : doc[k].parent # 0 => HoldsElements(doc[doc[k].parent])

\* ----- html_to_markdown -----

\* h.handle(html_content) raises on this markup
ConverterRaises(doc) == \E i \in DOMAIN doc : doc[i].tag = "#crash"

\* the rendering: one text run per node that carries text, in document order,
\* remembering the element it renders; script and style text is not rendered
html_to_markdown(html_content) ==
    LET shown == {i \in DOMAIN html_content :
                    /\ html_content[i].txt # ""
                    /\ html_content[i].tag \notin {"script", "style"}}
        kept == Serialize(html_content, shown)
    IN [k \in DOMAIN kept |-> Node("#md", {kept[k].tag}, "", 0, kept[k].txt)]

\* ----- upstream: the Hacker News API -----

\* an item as the API serves it and as Item(**data) holds it; `meta` says
\* whether the optional descriptive fields are present
MkItem(id, url, text, meta) ==
    [id |-> id, type |-> Some("story"), url |-> url, text |-> text,
     title |-> IF meta THEN Some("Show HN") ELSE None,
     by |-> IF meta THEN Some("pg") ELSE None,
     time |-> IF meta THEN Some(1700000000) ELSE None,
     score |-> IF meta THEN Some(42) ELSE None,
     descendants |-> IF meta THEN Some(7) ELSE None,
     kids |-> None, deleted |-> None, dead |-> None]

StoryUrl == "http://a.example/post"
RedirectedUrl == "http://b.example/post"
InlineText == Str("inline text")

\* the shapes of item the upstream serves: << url, text, meta >>
ItemShapes ==
    { << Some(StoryUrl), None, TRUE >>,
      << Some(StoryUrl), Some(InlineText), FALSE >>,
      << None, Some(InlineText), TRUE >>,
      << None, None, FALSE >>,
      << None, Some(EmptyStr), FALSE >>,
      << Some(""), Some(EmptyStr), TRUE >>,
      << Some(""), Some(InlineText), FALSE >> }

ItemsOf(id) == {MkItem(id, s[1], s[2], s[3]) : s \in ItemShapes}

\* what a GET of {HN_API_BASE_URL}/item/{id}.json can come to:
\*   json        2xx with a JSON object
\*   invalid     2xx with a JSON object Item(**data) rejects (no id)
\*   empty       2xx with {}
\*   null        2xx with null (the API's answer for an unknown id)
\*   http_error  httpx.HTTPError: transport failure, timeout, non-2xx status
\*   other_error any other exception, such as a body that is not JSON
ItemReplies(id) ==
    {[kind |-> "json", data |-> Some(it)] : it \in ItemsOf(id)}
    \cup {[kind |-> k, data |-> None] :
            k \in {"invalid", "empty", "null", "http_error", "other_error"}}

\* the outcome of a call: a returned value or a raised Exception with str(e)
Returned(v) == [ok |-> TRUE, value |-> v, exc |-> ""]
Raised(msg) == [ok |-> FALSE, value |-> None, exc |-> msg]

fetch_hn_data(reply) ==
    CASE reply.kind = "http_error" ->
            Raised("Failed to fetch data from Hacker News API: <HTTPError>")
      [] reply.kind = "other_error" ->
            Raised("An unexpected error occurred: <error>")
      [] OTHER -> Returned(reply)

get_item(id, reply) ==
    LET data == fetch_hn_data(reply)
    IN IF ~data.ok THEN data
       ELSE IF data.value.kind \in {"null", "empty"}
            THEN Raised("Item with ID " \o ToString(id) \o " not found")
            ELSE IF data.value.kind = "invalid"
                 THEN Raised("1 validation error for Item")
                 ELSE Returned(data.value.data[1])

\* ----- fetch_url_content -----

\* a Content-Type header value: the pieces of the media type and of the
\* parameters after it; `needle in value` is containment of the piece
Header(mtype, params) == [mtype |-> mtype, params |-> params]

ContentTypes ==
    { None,
      Some(Header(<< "text/html" >>, << >>)),
      Some(Header(<< "text/html" >>, << "; charset=utf-8" >>)),
      Some(Header(<< "application/json" >>, << >>)),
      Some(Header(<< "text/plain" >>, << >>)),
      Some(Header(<< "application/json", "-patch+json" >>, << >>)),
      Some(Header(<< "Text/HTML" >>, << "; charset=UTF-8" >>)) }

\* Python `needle in value` on response.headers.get("content-type", "")
HeaderContains(ct, needle) ==
    /\ ct # None
    /\ \E k \in DOMAIN (ct[1].mtype \o ct[1].params) :
            (ct[1].mtype \o ct[1].params)[k] = needle

Statuses == {200, 404, 503}

\* what `await http_client.get(url, follow_redirects=True)` can come to:
\* a response (after redirects) or an exception with str(e) = msg
HttpResponse(status, ct, body, url) ==
    [kind |-> "response", status |-> status, ct |-> ct, body |-> body, url |-> url,
     msg |-> ""]
HttpFailure(msg) ==
    [kind |-> "exception", status |-> 0, ct |-> None, body |-> EmptyStr, url |-> "",
     msg |-> msg]

\* str(e) of a timeout is empty
TransportErrors == {"", "All connection attempts failed"}

GetReplies(url) ==
    {HttpResponse(200, ct, b, u) :
        ct \in ContentTypes, b \in Bodies, u \in {url, RedirectedUrl}}
    \cup {HttpResponse(s, Some(Header(<< "text/html" >>, << >>)), Str("error page"), url) :
            s \in Statuses \ {200}}
    \cup {HttpFailure(m) : m \in TransportErrors}

\* response.raise_for_status(): raises for every non-2xx status
StatusRaises(status) == status < 200 \/ status > 299

StatusMessage(status) == "HTTP status error " \o ToString(status)

\* variant: what is neither HTML nor JSON is called binary
Classify_Binary(ct) ==
    IF HeaderContains(ct, "text/html") THEN "html"
    ELSE IF HeaderContains(ct, "application/json") THEN "json"
    ELSE "binary"

Classify(ct) ==
    IF HeaderContains(ct, "text/html") THEN "html"
    ELSE IF HeaderContains(ct, "application/json") THEN "json"
    ELSE "text"

\* the dict fetch_url_content returns; error = None is a dict without that key
UrlData(content, content_type, url, error) ==
    [content |-> content, content_type |-> content_type, url |-> url, error |-> error]

FetchError(url, msg) == UrlData(EmptyStr, "error", url, Some(msg))

\* variant: only the status error of raise_for_status is handled
fetch_url_content_StatusOnly(url, reply) ==
    IF reply.kind = "exception" THEN Raised(reply.msg)
    ELSE IF StatusRaises(reply.status)
         THEN Returned(FetchError(url, StatusMessage(reply.status)))
         ELSE Returned(UrlData(reply.body, Classify(reply.ct), reply.url, None))

fetch_url_content(url, reply) ==
    IF reply.kind = "exception" THEN Returned(FetchError(url, reply.msg))
    ELSE IF StatusRaises(reply.status)
         THEN Returned(FetchError(url, StatusMessage(reply.status)))
         ELSE Returned(UrlData(reply.body, Classify(reply.ct), reply.url, None))

\* ----- ContentResponse -----

ContentResponse(title, url, content, content_type, story_id, by, time, score, descendants, error) ==
    [title |-> title, url |-> url, content |-> content, content_type |-> content_type,
     story_id |-> story_id, by |-> by, time |-> time, score |-> score,
     descendants |-> descendants, error |-> error]

Formats == {"markdown", "json"}

\* ----- get_story_content, between its awaits -----

\* variant: the placeholder only replaces a missing text, not an empty one
NoUrlResponse_IsNone(story, story_id) ==
    ContentResponse(OrElse(story.title, "", "No title"), "",
                    IF story.text = None THEN Str("No content available")
                    ELSE story.text[1],
                    "text", story_id, story.by, story.time, story.score,
                    story.descendants, Some("Story does not have a URL"))

\* the return for a story without a URL
NoUrlResponse(story, story_id) ==
    ContentResponse(OrElse(story.title, "", "No title"), "",
                    OrElse(story.text, EmptyStr, Str("No content available")),
                    "text", story_id, story.by, story.time, story.score,
                    story.descendants, Some("Story does not have a URL"))

\* variant: `url_data.get("error") or "Failed to fetch content"`
FetchErrorResponse_OrDefault(story, story_id, url_data) ==
    ContentResponse(OrElse(story.title, "", "No title"), story.url[1], EmptyStr,
                    "error", story_id, story.by, story.time, story.score,
                    story.descendants,
                    Some(OrElse(url_data.error, "", "Failed to fetch content")))

\* the return when the fetcher reported an error
FetchErrorResponse(story, story_id, url_data) ==
    ContentResponse(OrElse(story.title, "", "No title"), story.url[1], EmptyStr,
                    "error", story_id, story.by, story.time, story.score,
                    story.descendants,
                    Some(IF url_data.error = None THEN "Failed to fetch content"
                         ELSE url_data.error[1]))

\* the return after the content was processed
SuccessResponse(story, story_id, url_data, processed_content, content_type) ==
    ContentResponse(OrElse(story.title, "", "No title"), url_data.url,
                    processed_content, content_type, story_id, story.by, story.time,
                    story.score, story.descendants, None)

\* variant: the handler's record carries no error message
ExceptionResponse_NoMessage(story_id, msg) ==
    ContentResponse("Error", "", EmptyStr, "error", story_id, None, None, None, None,
                    None)

\* the return of the handler of `except Exception as e`
ExceptionResponse(story_id, msg) ==
    ContentResponse("Error", "", EmptyStr, "error", story_id, None, None, None, None,
                    Some(msg))

\* variant: no handler around the body
ExceptException_Absent(story_id, outcome) == outcome

\* `except Exception`: an exception leaving the try body becomes an error record
ExceptException(story_id, outcome) ==
    IF outcome.ok THEN outcome ELSE Returned(ExceptionResponse(story_id, outcome.exc))

\* variant: `if story.url is None`
HasNoUrl_IsNone(story) == story.url = None

\* `if not story.url`
HasNoUrl(story) == ~Truthy(story.url, "")

\* a step of the pipeline, as logged in `trace`
Event(op, arg, ret) == [op |-> op, arg |-> arg, ret |-> ret]

\* the calls the try body makes on url_data, in order
Processing(format, url_data) ==
    IF url_data.content_type # "html" THEN << >>
    ELSE LET main_content == extract_main_content(url_data.content)
         IN << Event("extract_main_content", url_data.content, main_content) >>
            \o (IF format = "markdown"
                THEN << Event("html_to_markdown", main_content,
                              IF ConverterRaises(main_content) THEN EmptyStr
                              ELSE html_to_markdown(main_content)) >>
                ELSE << >>)

\* variant: every fetched body goes through the extractor
Process_ExtractAll(story, story_id, format, url_data) ==
    IF url_data.content_type = "error"
    THEN Returned(FetchErrorResponse(story, story_id, url_data))
    ELSE IF url_data.content_type = "html"
         THEN LET main_content == extract_main_content(url_data.content)
              IN IF format = "markdown"
                 THEN IF ConverterRaises(main_content)
                      THEN Raised("html2text error")
                      ELSE Returned(SuccessResponse(story, story_id, url_data,
                                        html_to_markdown(main_content), "markdown"))
                 ELSE Returned(SuccessResponse(story, story_id, url_data,
                                               main_content, "html"))
         ELSE Returned(SuccessResponse(story, story_id, url_data,
                                       extract_main_content(url_data.content),
                                       url_data.content_type))

\* variant: the converter is given the fetched page, not the extracted content
Process_ConvertRaw(story, story_id, format, url_data) ==
    IF url_data.content_type = "error"
    THEN Returned(FetchErrorResponse(story, story_id, url_data))
    ELSE IF url_data.content_type = "html"
         THEN LET main_content == extract_main_content(url_data.content)
              IN IF format = "markdown"
                 THEN IF ConverterRaises(url_data.content)
                      THEN Raised("html2text error")
                      ELSE Returned(SuccessResponse(story, story_id, url_data,
                                        html_to_markdown(url_data.content), "markdown"))
                 ELSE Returned(SuccessResponse(story, story_id, url_data,
                                               main_content, "html"))
         ELSE Returned(SuccessResponse(story, story_id, url_data, url_data.content,
                                       url_data.content_type))

\* the try body from the return of fetch_url_content on
Process(story, story_id, format, url_data) ==
    IF url_data.content_type = "error"
    THEN Returned(FetchErrorResponse(story, story_id, url_data))
    ELSE IF url_data.content_type = "html"
         THEN LET main_content == extract_main_content(url_data.content)
              IN IF format = "markdown"
                 THEN IF ConverterRaises(main_content)
                      THEN Raised("html2text error")
                      ELSE Returned(SuccessResponse(story, story_id, url_data,
                                        html_to_markdown(main_content), "markdown"))
                 ELSE Returned(SuccessResponse(story, story_id, url_data,
                                               main_content, "html"))
         ELSE Returned(SuccessResponse(story, story_id, url_data, url_data.content,
                                       url_data.content_type))

\* ----- find_stories_by_title, between its awaits -----

\* the characters of the titles and queries of the model
Chars(s) ==
    CASE s = "Show HN" -> << "S", "h", "o", "w", " ", "H", "N" >>
      [] s = "show" -> << "s", "h", "o", "w" >>
      [] s = "HN  Show" -> << "H", "N", " ", " ", "S", "h", "o", "w" >>
      [] s = "rust" -> << "r", "u", "s", "t" >>
      [] OTHER -> << >>

\* str.lower()
LowerChar(c) ==
    CASE c = "S" -> "s" [] c = "H" -> "h" [] c = "N" -> "n" [] OTHER -> c
Lower(cs) == [k \in DOMAIN cs |-> LowerChar(cs[k])]

RECURSIVE Split(_)
\* str.split(): the maximal runs of non-whitespace characters
Split(cs) ==
    IF cs = << >> THEN << >>
    ELSE IF cs[1] = " " THEN Split(Tail(cs))
    ELSE LET stop == IF \E k \in DOMAIN cs : cs[k] = " "
                     THEN Min({k \in DOMAIN cs : cs[k] = " "})
                     ELSE Len(cs) + 1
         IN << SubSeq(cs, 1, stop - 1) >> \o Split(SubSeq(cs, stop, Len(cs)))

\* Python `term in title`
IsSubstring(term, cs) ==
    \E k \in 0..(Len(cs) - Len(term)) : SubSeq(cs, k + 1, k + Len(term)) = term

Queries == {"show", "HN  Show", "rust", ""}

\* all_ids[:200]
CorpusCap == 200

\* list(dict.fromkeys(ids)): first occurrences, in order
Dedupe(ids) ==
    LET at == [j \in DOMAIN ids |-> << j, ids[j] >>]
        first(p) == \A h \in 1..(p[1] - 1) : ids[h] # p[2]
        kept == SelectSeq(at, first)
    IN [n \in DOMAIN kept |-> kept[n][2]]

\* variant: the corpus is not cut
Corpus_NoCap(top_ids, new_ids) == Dedupe(top_ids \o new_ids)

Corpus(top_ids, new_ids) ==
    LET all_ids == Dedupe(top_ids \o new_ids)
    IN SubSeq(all_ids, 1, IF Len(all_ids) < CorpusCap THEN Len(all_ids) ELSE CorpusCap)

\* the story lists the upstream serves
IdLists == { << >>, << 1 >>, << 2, 1 >>, << 1, 2, 1 >> }

\* what a GET of topstories.json or newstories.json can come to
ListReplies ==
    {[kind |-> "json", data |-> Some(l)] : l \in IdLists}
    \cup {[kind |-> k, data |-> None] : k \in {"null", "http_error", "other_error"}}

\* the test of the loop body on the looked-up data
TitleMatches(data, query) ==
    /\ data.type = Some("story")
    /\ Truthy(data.title, "")
    /\ \A k \in DOMAIN Split(Lower(Chars(query))) :
            IsSubstring(Split(Lower(Chars(query)))[k], Lower(Chars(data.title[1])))

\* the dict appended to matches
Match(story_id, data) ==
    [id |-> story_id, title |-> data.title, url |-> data.url, score |-> data.score,
     by |-> data.by, time |-> data.time, descendants |-> data.descendants]

\* the loop body for story_id once its lookup completed: matches afterwards
LoopBody(matches, story_id, query, reply) ==
    LET data == fetch_hn_data(reply)
    IN IF ~data.ok \/ data.value.kind # "json" THEN matches
       ELSE IF TitleMatches(data.value.data[1], query)
            THEN Append(matches, Match(story_id, data.value.data[1]))
            ELSE matches

\* the return of get_story_content_by_title when nothing matched
NotFoundResponse(title) ==
    ContentResponse("Not found", "", EmptyStr, "error", 0, None, None, None, None,
                    Some("No stories found matching '" \o title \o "'"))

\* ----- state -----

VARIABLES
    pc,         \* per call slot: where the coroutine is suspended
    call,       \* per call slot: the tool called and its arguments
    story,      \* per call slot: Optional[Item], the local `story`
    http_reply, \* per call slot: Optional, what the GET of the story URL came to
    url_data,   \* per call slot: Optional outcome of fetch_url_content
    result,     \* per call slot: Optional outcome of the call
    trace,      \* per call slot: the requests and pipeline steps of
                \* get_story_content so far
    find,       \* per call slot: the locals of find_stories_by_title
    served,     \* the story ids earlier calls have completed for
    item_reply, \* per call slot: Optional, what the item lookup of
                \* get_story_content came to
    prev,       \* Optional: the last completed call an observer kept, with
                \* the outcomes it met and the record it returned
    page,       \* the document extract_main_content is applied to, and what
                \* it and html_to_markdown return
    listing,    \* the story-list tool in progress
    task,       \* the lookup, comment, resource or search in progress
    life        \* the server process: transport, threads and http_client

\* the variables of the content tools, the observer's, and those of the other
\* operations
content_vars ==
    << pc, call, story, http_reply, url_data, result, trace, find, served, item_reply >>
others == << prev, page, listing, task, life >>
vars == << content_vars, others >>

NoCall == [tool |-> "", story_id |-> 0, format |-> "", title |-> ""]
NoFind == [top_ids |-> None, all_ids |-> << >>, k |-> 0, matches |-> << >>,
           requests |-> 0]
NoPage == [pc |-> "idle", html_content |-> EmptyStr, extracted |-> None]
\* no story-list tool runs: `arg` is the limit passed, `limit` the local after
\* its rebinding, `reply` what the upstream call came to
NoListing ==
    [pc |-> "idle", tool |-> "", arg |-> None, limit |-> 0, reply |-> None,
     result |-> None, requests |-> 0]

\* no tool other than the content and story-list tools runs: the arguments,
\* the endpoints requested so far, and the locals of the tools; `last` is how
\* the last lookup of a search went: "failed", "retried" (succeeded on the
\* id whose lookup had just failed) or "ok"
NoTask ==
    [pc |-> "idle", tool |-> "", id |-> 0, name |-> "", limit |-> 0, days_ago |-> 0,
     arg |-> None, last |-> "", calls |-> << >>, replies |-> << >>,
     result |-> None, story |-> None,
     story_ids |-> << >>, ids |-> << >>, k |-> 0,
     items |-> << >>, target_id |-> 0, current_id |-> 0, checked |-> 0]

\* the process has not started. `pc` is where the main thread is, `mcp` the
\* state of mcp.run (in the main thread for stdio, in the daemon thread for
\* sse), `client` that of http_client, `closed` the aclose() calls made,
\* `tools` and `api` the tool invocations in progress of the MCP server and
\* of the FastAPI routes, `sent` the requests issued on the open client and
\* `late` those attempted on the closed one
NoLife ==
    [pc |-> "off", transport |-> "", mcp |-> "off", client |-> "open", closed |-> 0,
     tools |-> 0, api |-> 0, sent |-> 0, late |-> 0]

\* no call is in progress in the slots S
Idle(S) ==
    /\ pc = [i \in S |-> "idle"]
    /\ call = [i \in S |-> NoCall]
    /\ story = [i \in S |-> None]
    /\ http_reply = [i \in S |-> None]
    /\ url_data = [i \in S |-> None]
    /\ result = [i \in S |-> None]
    /\ trace = [i \in S |-> << >>]
    /\ find = [i \in S |-> NoFind]
    /\ served = {}
    /\ item_reply = [i \in S |-> None]
    /\ prev = None
    /\ task = NoTask
    /\ life = NoLife

Init ==
    /\ Idle(Inv)
    /\ page = NoPage
    /\ listing = NoListing

\* variant: a story id served before is refused
Call_get_story_content_Once(i) ==
    /\ pc[i] = "idle"
    /\ \E id \in StoryIds, f \in Formats :
        /\ call' = [call EXCEPT ![i] =
                        [tool |-> "get_story_content", story_id |-> id, format |-> f,
                         title |-> ""]]
        /\ IF id \in served
           THEN /\ result' = [result EXCEPT ![i] =
                        Some(Returned(ExceptionResponse(id, "Already served")))]
                /\ pc' = [pc EXCEPT ![i] = "done"]
                /\ UNCHANGED trace
           ELSE /\ pc' = [pc EXCEPT ![i] = "get_item"]
                /\ trace' = [trace EXCEPT ![i] =
                                << Event("GET item", EmptyStr, EmptyStr) >>]
                /\ UNCHANGED result
    /\ UNCHANGED << story, http_reply, url_data, find, served, item_reply >>
    /\ UNCHANGED others

\* get_story_content(story_id, format) is called: runs to `await get_item`
Call_get_story_content(i) ==
    /\ pc[i] = "idle"
    /\ \E id \in StoryIds, f \in Formats :
            call' = [call EXCEPT ![i] =
                        [tool |-> "get_story_content", story_id |-> id, format |-> f,
                         title |-> ""]]
    /\ pc' = [pc EXCEPT ![i] = "get_item"]
    /\ trace' = [trace EXCEPT ![i] = << Event("GET item", EmptyStr, EmptyStr) >>]
    /\ UNCHANGED << story, http_reply, url_data, result, find, served, item_reply >>
    /\ UNCHANGED others

\* the item lookup completes: the story has no URL or the lookup raised, and
\* the call returns; or it runs on to `await fetch_url_content(story.url)`
Resume_get_item(i) ==
    /\ pc[i] = "get_item"
    /\ \E reply \in ItemReplies(call[i].story_id) :
        LET got == get_item(call[i].story_id, reply)
        IN /\ item_reply' = [item_reply EXCEPT ![i] = Some(reply)]
           /\ IF ~got.ok
              THEN /\ result' = [result EXCEPT ![i] =
                                   Some(ExceptException(call[i].story_id, got))]
                   /\ pc' = [pc EXCEPT ![i] = "done"]
                   /\ UNCHANGED << story, trace >>
              ELSE IF HasNoUrl(got.value)
                   THEN /\ story' = [story EXCEPT ![i] = Some(got.value)]
                        /\ result' = [result EXCEPT ![i] =
                               Some(ExceptException(call[i].story_id,
                                       Returned(NoUrlResponse(got.value, call[i].story_id))))]
                        /\ pc' = [pc EXCEPT ![i] = "done"]
                        /\ UNCHANGED trace
                   ELSE /\ story' = [story EXCEPT ![i] = Some(got.value)]
                        /\ pc' = [pc EXCEPT ![i] = "fetch_url_content"]
                        /\ trace' = [trace EXCEPT ![i] =
                                       Append(@, Event("GET url", EmptyStr, EmptyStr))]
                        /\ UNCHANGED result
    /\ UNCHANGED << call, http_reply, url_data, find, served >>
    /\ UNCHANGED others

\* variant: `story` is one module-level name, which the lookup of any call in
\* progress rebinds
FetchReturns_SharedStory(i, reply) ==
    LET holders == {j \in DOMAIN story : j # i /\ story[j] # None}
        shared == IF holders = {} THEN story[i][1]
                  ELSE story[CHOOSE j \in holders : TRUE][1]
        fetched == fetch_url_content(story[i][1].url[1], reply)
    IN /\ http_reply' = [http_reply EXCEPT ![i] = Some(reply)]
       /\ url_data' = [url_data EXCEPT ![i] = Some(fetched)]
       /\ IF ~fetched.ok
          THEN /\ result' = [result EXCEPT ![i] =
                        Some(ExceptException(call[i].story_id, fetched))]
               /\ UNCHANGED trace
          ELSE /\ result' = [result EXCEPT ![i] =
                        Some(ExceptException(call[i].story_id,
                                Process(shared, call[i].story_id,
                                        call[i].format, fetched.value)))]
               /\ trace' = [trace EXCEPT ![i] =
                        @ \o Processing(call[i].format, fetched.value)]
       /\ pc' = [pc EXCEPT ![i] = "done"]
       /\ UNCHANGED << call, story, find, served, item_reply >>
       /\ UNCHANGED others

\* the GET of the story URL came to `reply`: fetch_url_content returns, the
\* content is processed and the call returns
FetchReturns(i, reply) ==
    LET fetched == fetch_url_content(story[i][1].url[1], reply)
    IN /\ http_reply' = [http_reply EXCEPT ![i] = Some(reply)]
       /\ url_data' = [url_data EXCEPT ![i] = Some(fetched)]
       /\ IF ~fetched.ok
          THEN /\ result' = [result EXCEPT ![i] =
                        Some(ExceptException(call[i].story_id, fetched))]
               /\ UNCHANGED trace
          ELSE /\ result' = [result EXCEPT ![i] =
                        Some(ExceptException(call[i].story_id,
                                Process(story[i][1], call[i].story_id,
                                        call[i].format, fetched.value)))]
               /\ trace' = [trace EXCEPT ![i] =
                        @ \o Processing(call[i].format, fetched.value)]
       /\ pc' = [pc EXCEPT ![i] = "done"]
       /\ UNCHANGED << call, story, find, served, item_reply >>
       /\ UNCHANGED others

\* variant: a failed GET is attempted once more
Resume_fetch_url_content_Retry(i) ==
    /\ pc[i] = "fetch_url_content"
    /\ \E reply \in GetReplies(story[i][1].url[1]) :
        IF (reply.kind = "exception" \/ StatusRaises(reply.status)) /\ Len(trace[i]) < 3
        THEN /\ trace' = [trace EXCEPT ![i] =
                            Append(@, Event("GET url", EmptyStr, EmptyStr))]
             /\ UNCHANGED << pc, call, story, http_reply, url_data, result, find, served >>
             /\ UNCHANGED << item_reply, others >>
        ELSE FetchReturns(i, reply)

\* the single `await http_client.get(url, follow_redirects=True)` completes
Resume_fetch_url_content(i) ==
    /\ pc[i] = "fetch_url_content"
    /\ \E reply \in GetReplies(story[i][1].url[1]) : FetchReturns(i, reply)

\* the caller has the result; the slot is free for the next call
Release(i) ==
    /\ pc[i] = "done"
    /\ pc' = [pc EXCEPT ![i] = "idle"]
    /\ served' = served \cup ({call[i].story_id} \cap StoryIds)
    /\ call' = [call EXCEPT ![i] = NoCall]
    /\ find' = [find EXCEPT ![i] = NoFind]
    /\ story' = [story EXCEPT ![i] = None]
    /\ http_reply' = [http_reply EXCEPT ![i] = None]
    /\ url_data' = [url_data EXCEPT ![i] = None]
    /\ result' = [result EXCEPT ![i] = None]
    /\ trace' = [trace EXCEPT ![i] = << >>]
    /\ item_reply' = [item_reply EXCEPT ![i] = None]
    /\ UNCHANGED << page, listing, task, life >>

Finish(i) ==
    /\ Release(i)
    /\ UNCHANGED prev

\* find_stories_by_title(title, limit=1)
TitleLimit == 1

\* get_story_content_by_title(title, format) is called: runs to the
\* `await fetch_hn_data("topstories.json")` of find_stories_by_title
Call_get_story_content_by_title(i) ==
    /\ pc[i] = "idle"
    /\ \E q \in Queries, f \in Formats :
            call' = [call EXCEPT ![i] =
                        [tool |-> "get_story_content_by_title", story_id |-> 0,
                         format |-> f, title |-> q]]
    /\ pc' = [pc EXCEPT ![i] = "find_top"]
    /\ find' = [find EXCEPT ![i] = [NoFind EXCEPT !.requests = 1]]
    /\ UNCHANGED << story, http_reply, url_data, result, trace, served, item_reply >>
    /\ UNCHANGED others

\* an exception leaves find_stories_by_title and get_story_content_by_title
Propagate(i, msg) ==
    /\ result' = [result EXCEPT ![i] = Some(Raised(msg))]
    /\ pc' = [pc EXCEPT ![i] = "done"]
    /\ UNCHANGED << call, trace >>

\* topstories.json arrives: runs to `await fetch_hn_data("newstories.json")`
Resume_find_top(i) ==
    /\ pc[i] = "find_top"
    /\ \E reply \in ListReplies :
        LET got == fetch_hn_data(reply)
        IN IF ~got.ok
           THEN Propagate(i, got.exc) /\ UNCHANGED find
           ELSE /\ find' = [find EXCEPT ![i].top_ids = Some(got.value.data),
                                        ![i].requests = @ + 1]
                /\ pc' = [pc EXCEPT ![i] = "find_new"]
                /\ UNCHANGED << call, result, trace >>
    /\ UNCHANGED << story, http_reply, url_data, served, item_reply >>
    /\ UNCHANGED others

\* the head of `for story_id in all_ids` with locals f: the loop goes on to the
\* lookup of the next id, or find_stories_by_title returns and
\* get_story_content_by_title returns "Not found" or calls get_story_content
LoopHead(i, f) ==
    IF f.k <= Len(f.all_ids) /\ Len(f.matches) < TitleLimit
    THEN /\ find' = [find EXCEPT ![i] = [f EXCEPT !.requests = @ + 1]]
         /\ pc' = [pc EXCEPT ![i] = "find_item"]
         /\ UNCHANGED << call, result, trace >>
    ELSE IF f.matches = << >>
         THEN /\ find' = [find EXCEPT ![i] = f]
              /\ result' = [result EXCEPT ![i] =
                                Some(Returned(NotFoundResponse(call[i].title)))]
              /\ pc' = [pc EXCEPT ![i] = "done"]
              /\ UNCHANGED << call, trace >>
         ELSE \* the frame of find_stories_by_title is gone
              /\ find' = [find EXCEPT ![i] = [NoFind EXCEPT !.requests = f.requests]]
              /\ call' = [call EXCEPT ![i].story_id = f.matches[1].id]
              /\ pc' = [pc EXCEPT ![i] = "get_item"]
              /\ trace' = [trace EXCEPT ![i] =
                                << Event("GET item", EmptyStr, EmptyStr) >>]
              /\ UNCHANGED result

\* newstories.json arrives: the corpus is built and the loop entered
Resume_find_new(i) ==
    /\ pc[i] = "find_new"
    /\ \E reply \in ListReplies :
        LET got == fetch_hn_data(reply)
        IN IF ~got.ok
           THEN Propagate(i, got.exc) /\ UNCHANGED find
           ELSE IF find[i].top_ids[1] = None \/ got.value.data = None
                THEN Propagate(i, "TypeError: unsupported operand type(s) for +")
                     /\ UNCHANGED find
                ELSE LoopHead(i, [find[i] EXCEPT
                                    !.all_ids = Corpus(find[i].top_ids[1][1],
                                                       got.value.data[1]),
                                    !.k = 1])
    /\ UNCHANGED << story, http_reply, url_data, served, item_reply >>
    /\ UNCHANGED others

\* the lookup of all_ids[k] completes: the loop body runs, then the loop head
Resume_find_item(i) ==
    /\ pc[i] = "find_item"
    /\ \E reply \in ItemReplies(find[i].all_ids[find[i].k]) :
        LoopHead(i, [find[i] EXCEPT
                        !.matches = LoopBody(find[i].matches, find[i].all_ids[find[i].k],
                                             call[i].title, reply),
                        !.k = @ + 1])
    /\ UNCHANGED << story, http_reply, url_data, served, item_reply >>
    /\ UNCHANGED others

Next ==
    \E i \in Inv :
        \/ Call_get_story_content(i)
        \/ Call_get_story_content_by_title(i)
        \/ Resume_find_top(i)
        \/ Resume_find_new(i)
        \/ Resume_find_item(i)
        \/ Resume_get_item(i)
        \/ Resume_fetch_url_content(i)
        \/ Finish(i)

Spec == Init /\ [][Next]_vars

\* ----- extract_main_content on its own -----

\* extract_main_content is called on any document of one to MaxNodes nodes
InitExtract ==
    /\ Idle(Inv)
    /\ \E n \in 1..MaxNodes :
        \E ps \in Shapes(n) :
            \E ks \in [1..n -> NodeKinds] :
                /\ WellFormed(Doc(ks, ps))
                /\ page = [NoPage EXCEPT !.pc = "called", !.html_content = Doc(ks, ps)]
    /\ listing = NoListing

\* extract_main_content(html_content) runs and returns
Extract ==
    /\ page.pc = "called"
    /\ page' = [page EXCEPT !.pc = "returned",
                            !.extracted = Some(extract_main_content(page.html_content))]
    /\ UNCHANGED << content_vars, prev, listing, task, life >>

NextExtract == Extract

SpecExtract == InitExtract /\ [][NextExtract]_vars

\* ----- the story-list tools -----

\* the six tools: name, endpoint and the number in `min(limit, ...)`
StoryListTools ==
    { [tool |-> "get_top_stories", endpoint |-> "topstories.json", cap |-> 500],
      [tool |-> "get_new_stories", endpoint |-> "newstories.json", cap |-> 500],
      [tool |-> "get_best_stories", endpoint |-> "beststories.json", cap |-> 500],
      [tool |-> "get_ask_stories", endpoint |-> "askstories.json", cap |-> 200],
      [tool |-> "get_show_stories", endpoint |-> "showstories.json", cap |-> 200],
      [tool |-> "get_job_stories", endpoint |-> "jobstories.json", cap |-> 200] }

\* the `limit: Optional[int]` passed: none, negative, zero, below, at and
\* above each cap
Limits == {None} \cup {Some(n) : n \in {-2, -1, 0, 1, 3, 200, 201, 500, 501}}

\* n story ids, newest first
Ids(n) == [k \in 1..n |-> n + 1 - k]

\* the lengths of list the upstream serves: empty, short, and longer than
\* each cap
ListLengths == {0, 3, 201, 501}

\* what a GET of a story-list endpoint can come to
StoryListReplies ==
    {[kind |-> "json", data |-> Some(Ids(n))] : n \in ListLengths}
    \cup {[kind |-> k, data |-> None] : k \in {"null", "http_error", "other_error"}}

\* Python's stories[:limit]: the first `limit` elements, or all but the last
\* -limit for a negative limit
Slice(stories, limit) ==
    LET stop == IF limit >= 0 THEN limit ELSE Len(stories) + limit
    IN SubSeq(stories, 1, IF stop > Len(stories) THEN Len(stories) ELSE stop)

\* a story-list tool is called: `limit = min(limit, cap)` runs, then the tool
\* waits at `await fetch_hn_data(endpoint)`; min(None, cap) raises
Call_story_list ==
    /\ listing.pc = "idle"
    /\ \E t \in StoryListTools, l \in Limits :
        IF l = None
        THEN listing' = [NoListing EXCEPT
                !.pc = "done", !.tool = t.tool,
                !.result = Some(Raised("TypeError: '<' not supported between "
                                       \o "instances of 'int' and 'NoneType'"))]
        ELSE listing' = [NoListing EXCEPT
                !.pc = "fetch_hn_data", !.tool = t.tool, !.arg = l,
                !.limit = IF l[1] < t.cap THEN l[1] ELSE t.cap,
                !.requests = 1]
    /\ UNCHANGED << content_vars, prev, page, task, life >>

\* the upstream call completes and `stories[:limit]` is returned
Resume_story_list ==
    /\ listing.pc = "fetch_hn_data"
    /\ \E reply \in StoryListReplies :
        LET stories == fetch_hn_data(reply)
        IN listing' = [listing EXCEPT
                !.pc = "done", !.reply = Some(reply),
                !.result = Some(
                    IF ~stories.ok THEN stories
                    ELSE IF stories.value.data = None
                         THEN Raised("TypeError: 'NoneType' object is not subscriptable")
                         ELSE Returned(Slice(stories.value.data[1], listing.limit)))]
    /\ UNCHANGED << content_vars, prev, page, task, life >>

\* the caller has the list, or the exception
Return_story_list ==
    /\ listing.pc = "done"
    /\ listing' = NoListing
    /\ UNCHANGED << content_vars, prev, page, task, life >>

NextLists ==
    \/ Call_story_list
    \/ Resume_story_list
    \/ Return_story_list

SpecLists == Init /\ [][NextLists]_vars

\* ----- the lookup tools: get_item and get_user -----

\* the ids of the comments the upstream has
CommentIds == {11, 12, 13}

\* the `kids` a story can have, in ranked order
KidLists == { << >>, << 11 >>, << 12, 11 >>, << 13, 11, 12 >> }

Comment(id) ==
    [MkItem(id, None, Some(InlineText), FALSE) EXCEPT
        !.type = Some("comment"), !.by = Some("norvig")]

\* items other than the plain stories of ItemsOf: stories with kids, deleted
\* and dead stories, a job, an item without type
OtherItems(id) ==
    LET plain == MkItem(id, Some(StoryUrl), None, TRUE)
    IN {[plain EXCEPT !.kids = Some(l)] : l \in KidLists}
       \cup { [plain EXCEPT !.deleted = Some(TRUE)],
              [plain EXCEPT !.dead = Some(TRUE)],
              [plain EXCEPT !.deleted = Some(FALSE), !.dead = Some(FALSE)],
              [plain EXCEPT !.type = Some("job")],
              [plain EXCEPT !.type = None] }

\* the items the upstream can serve under an id
UpstreamItems(id) ==
    IF id \in CommentIds
    THEN {Comment(id), [Comment(id) EXCEPT !.deleted = Some(TRUE)]}
    ELSE ItemsOf(id) \cup OtherItems(id)

\* what a GET of item/{id}.json can come to for the tools below
LookupReplies(id) ==
    {[kind |-> "json", data |-> Some(it)] : it \in UpstreamItems(id)}
    \cup {[kind |-> k, data |-> None] :
            k \in {"invalid", "empty", "null", "http_error", "other_error"}}

UserNames == {"pg", "dhouston"}

\* a user as the API serves it and as User(**data) holds it
MkUser(id, full) ==
    [id |-> id,
     created |-> IF full THEN Some(1175714200) ELSE None,
     karma |-> IF full THEN Some(2937) ELSE None,
     about |-> IF full THEN Some("This is a test") ELSE None,
     submitted |-> IF full THEN Some(<< 1, 11 >>) ELSE None]

\* what a GET of user/{id}.json can come to
UserReplies(name) ==
    {[kind |-> "json", data |-> Some(MkUser(name, full))] : full \in BOOLEAN}
    \cup {[kind |-> k, data |-> None] :
            k \in {"invalid", "empty", "null", "http_error", "other_error"}}

\* variant: only a null answer counts as not found
get_user_NullOnly(id, reply) ==
    LET data == fetch_hn_data(reply)
    IN IF ~data.ok THEN data
       ELSE IF data.value.kind = "null"
            THEN Raised("User with ID " \o id \o " not found")
            ELSE IF data.value.kind \in {"invalid", "empty"}
                 THEN Raised("1 validation error for User")
                 ELSE Returned(data.value.data[1])

get_user(id, reply) ==
    LET data == fetch_hn_data(reply)
    IN IF ~data.ok THEN data
       ELSE IF data.value.kind \in {"null", "empty"}
            THEN Raised("User with ID " \o id \o " not found")
            ELSE IF data.value.kind = "invalid"
                 THEN Raised("1 validation error for User")
                 ELSE Returned(data.value.data[1])

ItemEndpoint(id) == "item/" \o ToString(id) \o ".json"
UserEndpoint(name) == "user/" \o name \o ".json"

\* the tool get_item(id) is called: runs to `await fetch_hn_data`
Tool_get_item ==
    /\ task.pc = "idle"
    /\ \E id \in StoryIds \cup CommentIds :
            task' = [NoTask EXCEPT !.pc = "get_item", !.tool = "get_item", !.id = id,
                                   !.calls = << ItemEndpoint(id) >>]
    /\ UNCHANGED << content_vars, prev, page, listing, life >>

\* the upstream answers and get_item returns or raises
Resume_tool_get_item ==
    /\ task.pc = "get_item"
    /\ \E reply \in LookupReplies(task.id) :
            task' = [task EXCEPT !.pc = "done", !.replies = << reply >>,
                                 !.result = Some(get_item(task.id, reply))]
    /\ UNCHANGED << content_vars, prev, page, listing, life >>

\* the tool get_user(id) is called: runs to `await fetch_hn_data`
Tool_get_user ==
    /\ task.pc = "idle"
    /\ \E name \in UserNames :
            task' = [NoTask EXCEPT !.pc = "get_user", !.tool = "get_user", !.name = name,
                                   !.calls = << UserEndpoint(name) >>]
    /\ UNCHANGED << content_vars, prev, page, listing, life >>

\* the upstream answers and get_user returns or raises
Resume_tool_get_user ==
    /\ task.pc = "get_user"
    /\ \E reply \in UserReplies(task.name) :
            task' = [task EXCEPT !.pc = "done", !.replies = << reply >>,
                                 !.result = Some(get_user(task.name, reply))]
    /\ UNCHANGED << content_vars, prev, page, listing, life >>

\* ----- get_story_with_comments -----

\* the `comment_limit: int` passed
CommentLimits == {-1, 0, 1, 2, 10}

\* the dict get_story_with_comments returns
StoryWithComments(story_data, comments) == [story |-> story_data, comments |-> comments]

\* the head of `for kid_id in story.kids[:comment_limit]` at position k of
\* the locals t: the next kid is looked up, or the dict is returned
CommentLoop(t) ==
    IF t.k <= Len(t.ids)
    THEN [t EXCEPT !.pc = "get_comment", !.calls = Append(@, ItemEndpoint(t.ids[t.k]))]
    ELSE [t EXCEPT !.pc = "done",
                   !.result = Some(Returned(StoryWithComments(t.story[1], t.items)))]

\* get_story_with_comments(story_id, comment_limit) is called: runs to the
\* `await get_item(story_id)`
Tool_get_story_with_comments ==
    /\ task.pc = "idle"
    /\ \E id \in StoryIds, comment_limit \in CommentLimits :
            task' = [NoTask EXCEPT !.pc = "get_story", !.tool = "get_story_with_comments",
                                   !.id = id, !.limit = comment_limit,
                                   !.calls = << ItemEndpoint(id) >>]
    /\ UNCHANGED << content_vars, prev, page, listing, life >>

\* the story lookup completes: its exception leaves the tool, or the loop
\* over the kids is entered (not at all for a story without kids)
Resume_get_story ==
    /\ task.pc = "get_story"
    /\ \E reply \in LookupReplies(task.id) :
        LET story_ == get_item(task.id, reply)
            seen == [task EXCEPT !.replies = << reply >>]
        IN IF ~story_.ok
           THEN task' = [seen EXCEPT !.pc = "done", !.result = Some(story_)]
           ELSE task' = CommentLoop(
                    [seen EXCEPT
                        !.story = Some(story_.value),
                        !.ids = IF Truthy(story_.value.kids, << >>)
                                THEN Slice(story_.value.kids[1], task.limit)
                                ELSE << >>,
                        !.k = 1])
    /\ UNCHANGED << content_vars, prev, page, listing, life >>

\* the lookup of a kid completes: the comment is appended, or the exception
\* is logged and the kid skipped
Resume_get_comment ==
    /\ task.pc = "get_comment"
    /\ \E reply \in LookupReplies(task.ids[task.k]) :
        LET comment == get_item(task.ids[task.k], reply)
        IN task' = CommentLoop(
                [task EXCEPT
                    !.replies = Append(@, reply),
                    !.items = IF comment.ok THEN Append(@, comment.value) ELSE @,
                    !.k = @ + 1])
    /\ UNCHANGED << content_vars, prev, page, listing, life >>

\* ----- the resource hn://top/{limit} -----

\* the `limit: int` of the URI
ResourceLimits == {-1, 0, 2, 3, 11}

\* the lengths of top list the upstream serves to the resource
ResourceLists == {0, 3, 12}

\* what the GET of topstories.json can come to
TopReplies ==
    {[kind |-> "json", data |-> Some(Ids(n))] : n \in ResourceLists}
    \cup {[kind |-> k, data |-> None] : k \in {"null", "http_error", "other_error"}}

\* what the lookup of a listed story can come to
ListedReplies(id) ==
    { [kind |-> "json", data |-> Some(MkItem(id, Some(StoryUrl), None, TRUE))],
      [kind |-> "null", data |-> None],
      [kind |-> "http_error", data |-> None] }

\* "Limit to 10 full stories to avoid overloading"
FullStories == 10

\* get_top_stories(limit) once its upstream call completed
get_top_stories(limit, reply) ==
    LET cap == (CHOOSE t \in StoryListTools : t.tool = "get_top_stories").cap
        stories == fetch_hn_data(reply)
    IN IF ~stories.ok THEN stories
       ELSE IF stories.value.data = None
            THEN Raised("TypeError: 'NoneType' object is not subscriptable")
            ELSE Returned(Slice(stories.value.data[1], IF limit < cap THEN limit ELSE cap))

\* the dict top_stories_resource returns
TopStories(story_ids, stories) == [story_ids |-> story_ids, stories |-> stories]

\* the head of `for story_id in story_ids[:min(limit, 10)]`
StoryLoop(t) ==
    IF t.k <= Len(t.ids)
    THEN [t EXCEPT !.pc = "get_listed", !.calls = Append(@, ItemEndpoint(t.ids[t.k]))]
    ELSE [t EXCEPT !.pc = "done",
                   !.result = Some(Returned(TopStories(t.story_ids, t.items)))]

\* the resource is read: runs to the upstream call of get_top_stories(limit)
Read_top_stories_resource ==
    /\ task.pc = "idle"
    /\ \E limit \in ResourceLimits :
            task' = [NoTask EXCEPT !.pc = "get_top_stories", !.tool = "top_stories_resource",
                                   !.limit = limit, !.calls = << "topstories.json" >>]
    /\ UNCHANGED << content_vars, prev, page, listing, life >>

\* get_top_stories returns: its exception leaves the resource, or the loop
\* over the first ids is entered
Resume_get_top_stories ==
    /\ task.pc = "get_top_stories"
    /\ \E reply \in TopReplies :
        LET story_ids == get_top_stories(task.limit, reply)
            seen == [task EXCEPT !.replies = << reply >>]
        IN IF ~story_ids.ok
           THEN task' = [seen EXCEPT !.pc = "done", !.result = Some(story_ids)]
           ELSE task' = StoryLoop(
                    [seen EXCEPT
                        !.story_ids = story_ids.value,
                        !.ids = Slice(story_ids.value,
                                      IF task.limit < FullStories THEN task.limit
                                      ELSE FullStories),
                        !.k = 1])
    /\ UNCHANGED << content_vars, prev, page, listing, life >>

\* the lookup of a listed story completes: its record is appended, or the
\* exception is logged and the story skipped
Resume_get_listed ==
    /\ task.pc = "get_listed"
    /\ \E reply \in ListedReplies(task.ids[task.k]) :
        LET story_ == get_item(task.ids[task.k], reply)
        IN task' = StoryLoop(
                [task EXCEPT
                    !.items = IF story_.ok THEN Append(@, story_.value) ELSE @,
                    !.k = @ + 1])
    /\ UNCHANGED << content_vars, prev, page, listing, life >>

\* ----- find_stories_by_title as a tool -----

\* the `limit: int` passed; 5 is the default
FindLimits == {-1, 0, 1, 2, 5}

\* the top lists served: the short ones and one longer than the corpus
TopLists == IdLists \cup {Ids(CorpusCap + 1)}

TopListReplies ==
    {[kind |-> "json", data |-> Some(l)] : l \in TopLists}
    \cup {[kind |-> k, data |-> None] : k \in {"null", "http_error", "other_error"}}

\* what the lookup of a listed id can come to: under the small ids a titled
\* story, an untitled one, one with an empty title, a titled job, null, {}
\* or a failure; under the others a comment or null
FoundReplies(id) ==
    IF id \in StoryIds
    THEN LET titled == MkItem(id, Some(StoryUrl), None, TRUE)
         IN {[kind |-> "json", data |-> Some(it)] :
                it \in { titled,
                         MkItem(id, Some(StoryUrl), None, FALSE),
                         [titled EXCEPT !.title = Some("")],
                         [titled EXCEPT !.type = Some("job")] }}
            \cup {[kind |-> k, data |-> None] : k \in {"null", "empty", "http_error"}}
    ELSE IF id % 2 = 0
         THEN {[kind |-> "null", data |-> None]}
         ELSE {[kind |-> "json", data |-> Some(Comment(id))]}

\* the head of `for story_id in all_ids`: the next id is looked up, or the
\* loop is left and matches returned
FindLoop(t) ==
    IF t.k <= Len(t.story_ids) /\ Len(t.items) < t.limit
    THEN [t EXCEPT !.pc = "find_item", !.calls = Append(@, ItemEndpoint(t.story_ids[t.k]))]
    ELSE [t EXCEPT !.pc = "done", !.result = Some(Returned(t.items))]

\* find_stories_by_title(query, limit) is called: runs to
\* `await fetch_hn_data("topstories.json")`
Tool_find_stories_by_title ==
    /\ task.pc = "idle"
    /\ \E query \in Queries, limit \in FindLimits :
            task' = [NoTask EXCEPT !.pc = "find_top", !.tool = "find_stories_by_title",
                                   !.name = query, !.limit = limit,
                                   !.calls = << "topstories.json" >>]
    /\ UNCHANGED << content_vars, prev, page, listing, life >>

\* topstories.json arrives: runs to `await fetch_hn_data("newstories.json")`
Resume_top_ids ==
    /\ task.pc = "find_top"
    /\ \E reply \in TopListReplies :
        LET top_ids == fetch_hn_data(reply)
        IN IF ~top_ids.ok
           THEN task' = [task EXCEPT !.pc = "done", !.replies = << reply >>,
                                     !.result = Some(top_ids)]
           ELSE task' = [task EXCEPT !.pc = "find_new", !.replies = << reply >>,
                                     !.calls = Append(@, "newstories.json")]
    /\ UNCHANGED << content_vars, prev, page, listing, life >>

\* newstories.json arrives: the corpus is built and the loop entered
Resume_new_ids ==
    /\ task.pc = "find_new"
    /\ \E reply \in ListReplies :
        LET new_ids == fetch_hn_data(reply)
            seen == [task EXCEPT !.replies = Append(@, reply)]
        IN IF ~new_ids.ok
           THEN task' = [seen EXCEPT !.pc = "done", !.result = Some(new_ids)]
           ELSE IF task.replies[1].data = None \/ reply.data = None
                THEN task' = [seen EXCEPT
                        !.pc = "done",
                        !.result = Some(Raised("TypeError: unsupported operand type(s) for +"))]
                ELSE task' = FindLoop(
                        [seen EXCEPT
                            !.story_ids = Corpus(task.replies[1].data[1], reply.data[1]),
                            !.k = 1])
    /\ UNCHANGED << content_vars, prev, page, listing, life >>

\* the lookup of all_ids[k] completes: the loop body runs, then the loop head
Resume_find_lookup ==
    /\ task.pc = "find_item"
    /\ \E reply \in FoundReplies(task.story_ids[task.k]) :
        task' = FindLoop(
            [task EXCEPT
                !.replies = Append(@, reply),
                !.items = LoopBody(@, task.story_ids[task.k], task.name, reply),
                !.k = @ + 1])
    /\ UNCHANGED << content_vars, prev, page, listing, life >>

\* ----- search_by_date -----

\* the `days_ago: int` passed
DaysAgo == {0, 1}

\* the `limit: Optional[int]` passed
SearchLimits == {None} \cup {Some(n) : n \in {-1, 0, 1, 2}}

\* what the GET of maxitem.json can come to
MaxItemReplies ==
    {[kind |-> "json", data |-> Some(n)] : n \in {3, 20005}}
    \cup {[kind |-> k, data |-> None] : k \in {"null", "http_error", "other_error"}}

\* get_max_item_id() once its upstream call completed
get_max_item_id(reply) == fetch_hn_data(reply)

\* "Approximate items per day (very rough estimate)"
items_per_day == 20000

\* the `10` of `checked < limit * 10`
ChecksPerStory == 10

\* what the lookup of a probed id can come to: a story, a story with
\* deleted and dead set to false, a deleted one, a dead one, a comment, null
\* or a failure
ProbeReplies(id) ==
    LET plain == MkItem(id, Some(StoryUrl), None, TRUE)
    IN {[kind |-> "json", data |-> Some(it)] :
            it \in { plain,
                     [plain EXCEPT !.deleted = Some(FALSE), !.dead = Some(FALSE)],
                     [plain EXCEPT !.deleted = Some(TRUE)],
                     [plain EXCEPT !.dead = Some(TRUE)],
                     Comment(id) }}
       \cup {[kind |-> k, data |-> None] : k \in {"null", "http_error"}}

\* variant: every story is collected
Collects_AnyStory(item) == item.type = Some("story")

\* `item.type == "story" and not item.deleted and not item.dead`
Collects(item) ==
    /\ item.type = Some("story")
    /\ item.deleted # Some(TRUE)
    /\ item.dead # Some(TRUE)

\* variant: the search goes back to the target id
NextProbe_Target(target_id, checked) == target_id

\* "Alternate between going up and down from the target ID"
NextProbe(target_id, checked) ==
    IF checked % 2 = 0
    THEN target_id + (checked \div 2) + 1
    ELSE target_id - (checked \div 2) - 1

\* the head of `while len(stories) < limit and checked < limit * 10`: the
\* current id is looked up, or stories[:limit] is returned
SearchLoop(t) ==
    IF Len(t.items) < t.limit /\ t.checked < t.limit * ChecksPerStory
    THEN [t EXCEPT !.pc = "probe"]
    ELSE [t EXCEPT !.pc = "done", !.result = Some(Returned(Slice(t.items, t.limit)))]

\* search_by_date(days_ago, limit) is called: runs to the upstream call of
\* get_max_item_id()
Tool_search_by_date ==
    /\ task.pc = "idle"
    /\ \E days_ago \in DaysAgo, limit \in SearchLimits :
            task' = [NoTask EXCEPT !.pc = "get_max_item_id", !.tool = "search_by_date",
                                   !.days_ago = days_ago, !.arg = limit,
                                   !.calls = << "maxitem.json" >>]
    /\ UNCHANGED << content_vars, prev, page, listing, life >>

\* get_max_item_id returns: its exception leaves the tool, a null max_id or
\* a limit of None raises, or the target is computed and the loop entered
Resume_get_max_item_id ==
    /\ task.pc = "get_max_item_id"
    /\ \E reply \in MaxItemReplies :
        LET max_id == get_max_item_id(reply)
            seen == [task EXCEPT !.replies = << reply >>]
        IN IF ~max_id.ok
           THEN task' = [seen EXCEPT !.pc = "done", !.result = Some(max_id)]
           ELSE IF max_id.value.data = None
                THEN task' = [seen EXCEPT
                        !.pc = "done",
                        !.result = Some(Raised("TypeError: unsupported operand type(s) for -"))]
                ELSE LET target_id == LET estimate == max_id.value.data[1]
                                                        - (task.days_ago * items_per_day)
                                      IN IF estimate > 1 THEN estimate ELSE 1
                     IN IF task.arg = None
                        THEN task' = [seen EXCEPT
                                !.pc = "done", !.target_id = target_id,
                                !.result = Some(Raised("TypeError: '<' not supported between "
                                                       \o "instances of 'int' and 'NoneType'"))]
                        ELSE task' = SearchLoop(
                                [seen EXCEPT !.limit = task.arg[1], !.target_id = target_id,
                                             !.current_id = target_id])
    /\ UNCHANGED << content_vars, prev, page, listing, life >>

\* the lookup of current_id completes: the item is collected or not and the
\* search moves on, or the exception is swallowed; then the loop head
Resume_probe ==
    /\ task.pc = "probe"
    /\ \E reply \in ProbeReplies(task.current_id) :
        LET item == get_item(task.current_id, reply)
        IN task' = SearchLoop(
                IF item.ok
                THEN [task EXCEPT
                        !.k = @ + 1,
                        !.last = IF @ = "failed" THEN "retried" ELSE "ok",
                        !.items = IF Collects(item.value) THEN Append(@, item.value) ELSE @,
                        !.current_id = NextProbe(task.target_id, task.checked),
                        !.checked = @ + 1]
                ELSE [task EXCEPT !.k = @ + 1, !.last = "failed", !.checked = @ + 1])
    /\ UNCHANGED << content_vars, prev, page, listing, life >>

\* the caller has what the tool returned or raised
Return_task ==
    /\ task.pc = "done"
    /\ task' = NoTask
    /\ UNCHANGED << content_vars, prev, page, listing, life >>

\* ----- the tools and resources over the item lookup -----

NextTools ==
    \/ Tool_get_item
    \/ Resume_tool_get_item
    \/ Tool_get_user
    \/ Resume_tool_get_user
    \/ Tool_get_story_with_comments
    \/ Resume_get_story
    \/ Resume_get_comment
    \/ Read_top_stories_resource
    \/ Resume_get_top_stories
    \/ Resume_get_listed
    \/ Return_task

SpecTools == Init /\ [][NextTools]_vars

NextFind ==
    \/ Tool_find_stories_by_title
    \/ Resume_top_ids
    \/ Resume_new_ids
    \/ Resume_find_lookup
    \/ Return_task

SpecFind == Init /\ [][NextFind]_vars

\* ----- the process: main(), setup and teardown -----

\* the tool invocations in progress on one side, and the requests counted
MaxInFlight == 2
MaxSent == 2

Transports == {"stdio", "sse"}

\* `python -m app.server --transport ...`: main() runs to asyncio.run(setup())
Start ==
    /\ life.pc = "off"
    /\ \E transport \in Transports :
            life' = [life EXCEPT !.pc = "setup", !.transport = transport]
    /\ UNCHANGED << content_vars, prev, page, listing, task >>

\* setup() returns: for stdio mcp.run(transport="stdio") is entered in the
\* main thread; for sse the app is built and the daemon thread started, which
\* enters mcp.run, and the main thread enters uvicorn.run(app)
Setup ==
    /\ life.pc = "setup"
    /\ life' = [life EXCEPT !.pc = IF life.transport = "stdio" THEN "mcp.run"
                                                               ELSE "uvicorn.run",
                            !.mcp = "running"]
    /\ UNCHANGED << content_vars, prev, page, listing, task >>

\* a client of the MCP server calls a tool
McpInvoke ==
    /\ life.mcp = "running" /\ life.tools < MaxInFlight
    /\ life' = [life EXCEPT !.tools = @ + 1]
    /\ UNCHANGED << content_vars, prev, page, listing, task >>

\* `await http_client.get(...)` on the client as it is: a request goes out,
\* or the closed client refuses it
Request(l) ==
    IF l.client = "open"
    THEN [l EXCEPT !.sent = IF @ < MaxSent THEN @ + 1 ELSE @]
    ELSE [l EXCEPT !.late = IF @ < MaxSent THEN @ + 1 ELSE @]

\* a tool invoked through the MCP server reaches its request and completes
McpRequest ==
    /\ life.mcp = "running" /\ life.tools > 0
    /\ life' = [Request(life) EXCEPT !.tools = @ - 1]
    /\ UNCHANGED << content_vars, prev, page, listing, task >>

\* a request to a route /api/... calls a tool
ApiInvoke ==
    /\ life.pc = "uvicorn.run" /\ life.api < MaxInFlight
    /\ life' = [life EXCEPT !.api = @ + 1]
    /\ UNCHANGED << content_vars, prev, page, listing, task >>

\* a tool invoked through a route reaches its request and completes
ApiRequest ==
    /\ life.pc \in {"uvicorn.run", "draining"} /\ life.api > 0
    /\ life' = [Request(life) EXCEPT !.api = @ - 1]
    /\ UNCHANGED << content_vars, prev, page, listing, task >>

\* stdin of the MCP server ends: mcp.run cancels its handlers and returns;
\* for stdio the main thread goes on to asyncio.run(teardown()), for sse the
\* daemon thread ends
McpEof ==
    /\ life.mcp = "running"
    /\ life' = [life EXCEPT !.mcp = "stopped", !.tools = 0,
                            !.pc = IF life.transport = "stdio" THEN "teardown" ELSE @]
    /\ UNCHANGED << content_vars, prev, page, listing, task >>

\* stdio: mcp.run is left by KeyboardInterrupt; nothing catches it and
\* teardown is not reached
Interrupt ==
    /\ life.pc = "mcp.run"
    /\ life' = [life EXCEPT !.pc = "exited", !.mcp = "stopped", !.tools = 0]
    /\ UNCHANGED << content_vars, prev, page, listing, task >>

\* sse: uvicorn gets SIGINT or SIGTERM, stops accepting and waits for the
\* requests in progress
Signal ==
    /\ life.pc = "uvicorn.run"
    /\ life' = [life EXCEPT !.pc = "draining"]
    /\ UNCHANGED << content_vars, prev, page, listing, task >>

\* sse: no request is in progress any more: the shutdown event is sent
Drained ==
    /\ life.pc = "draining" /\ life.api = 0
    /\ life' = [life EXCEPT !.pc = "shutdown_event"]
    /\ UNCHANGED << content_vars, prev, page, listing, task >>

\* sse: a second signal ends uvicorn without the shutdown event; main()
\* returns and the process ends, the daemon thread with it
ForceExit ==
    /\ life.pc = "draining"
    /\ life' = [life EXCEPT !.pc = "exited", !.mcp = "stopped", !.tools = 0, !.api = 0]
    /\ UNCHANGED << content_vars, prev, page, listing, task >>

\* teardown() runs, from main() for stdio and from shutdown_event() for sse:
\* `await http_client.aclose()`
Teardown ==
    /\ life.pc \in {"teardown", "shutdown_event"}
    /\ life' = [life EXCEPT !.pc = "torn down", !.client = "closed", !.closed = @ + 1]
    /\ UNCHANGED << content_vars, prev, page, listing, task >>

\* main() returns and the process ends, the daemon thread with it
Exit ==
    /\ life.pc = "torn down"
    /\ life' = [life EXCEPT !.pc = "exited", !.mcp = "stopped", !.tools = 0]
    /\ UNCHANGED << content_vars, prev, page, listing, task >>

NextLife ==
    \/ Start
    \/ Setup
    \/ McpInvoke
    \/ McpRequest
    \/ ApiInvoke
    \/ ApiRequest
    \/ McpEof
    \/ Interrupt
    \/ Signal
    \/ Drained
    \/ ForceExit
    \/ Teardown
    \/ Exit

SpecLife == Init /\ [][NextLife]_vars

NextSearch ==
    \/ Tool_search_by_date
    \/ Resume_get_max_item_id
    \/ Resume_probe
    \/ Return_task

SpecSearch == Init /\ [][NextSearch]_vars

\* every upstream call completes: the client's timeout ends a request the
\* upstream leaves unanswered
SpecSearchFair == SpecSearch /\ WF_vars(NextSearch)

\* ----- the same call made again -----

\* the caller has the result and the observer keeps the call, the outcomes of
\* its lookup and of its GET, and what it returned
FinishAndRemember(i) ==
    /\ Release(i)
    /\ prev' = Some([call |-> call[i], item_reply |-> item_reply[i],
                     http_reply |-> http_reply[i], result |-> result[i][1]])

\* a call in progress after the kept one has its arguments, and what its
\* lookup and its GET came to so far is what they came to for the kept call
Repeats ==
    \A i \in Inv :
        (prev # None /\ pc[i] # "idle") =>
            /\ call[i] = prev[1].call
            /\ item_reply[i] # None => item_reply[i] = prev[1].item_reply
            /\ http_reply[i] # None => http_reply[i] = prev[1].http_reply

\* get_story_content called over and over, the upstream answering each call
\* as it answered the one before
NextRepeat ==
    /\ \E i \in Inv :
            \/ Call_get_story_content(i)
            \/ Resume_get_item(i)
            \/ Resume_fetch_url_content(i)
            \/ FinishAndRemember(i)
    /\ Repeats'

SpecRepeat == Init /\ [][NextRepeat]_vars

\* ----- two calls in flight -----

ConcInv == {"c1", "c2"}

InitConc ==
    /\ Idle(ConcInv)
    /\ page = NoPage
    /\ listing = NoListing

\* no other call waits with its record undelivered; delivery touches the
\* finished slot only, so taking it first loses no interleaving of the awaits
OthersDelivered(i) == \A j \in ConcInv \ {i} : pc[j] # "done"

\* get_story_content calls in the two slots, resumed in any order
NextConc ==
    \E i \in ConcInv :
        \/ Call_get_story_content(i)
        \/ OthersDelivered(i) /\ Resume_get_item(i)
        \/ OthersDelivered(i) /\ Resume_fetch_url_content(i)
        \/ Finish(i)

SpecConc == InitConc /\ [][NextConc]_vars

TypeOK ==
    /\ \A i \in Inv : pc[i] \in {"idle", "find_top", "find_new", "find_item",
                                 "get_item", "fetch_url_content", "done"}
    /\ served \subseteq StoryIds

\* ----- the claims -----

\* the call in slot i has returned or raised
Done(i) == pc[i] = "done"
\* get_story_content ran in slot i (directly or under get_story_content_by_title)
RanGetStoryContent(i) == Done(i) /\ call[i].story_id \in StoryIds
\* the content record slot i returned
Rec(i) == result[i][1].value
ReturnedRecord(i) == Done(i) /\ result[i][1].ok

\* the looked-up story of slot i has no outbound URL (missing or empty)
UrlMissingOrEmpty(i) ==
    story[i] # None /\ (story[i][1].url = None \/ story[i][1].url = Some(""))

Count(tr, op) == Cardinality({k \in DOMAIN tr : tr[k].op = op})

\* the GET of the story URL of slot i failed: exception or non-2xx status
GetFailed(i) ==
    /\ http_reply[i] # None
    /\ \/ http_reply[i][1].kind = "exception"
       \/ http_reply[i][1].status \notin 200..299
GetSucceeded(i) == http_reply[i] # None /\ ~GetFailed(i)

\* the converter raised in slot i
ConverterRaised(i) ==
    \E k \in DOMAIN trace[i] :
        trace[i][k].op = "html_to_markdown" /\ ConverterRaises(trace[i][k].arg)

\* C1 (as stated): every returned record has content_type "error" only with
\* empty content and a non-null error, and a null error otherwise
C1_Original ==
    \A i \in Inv : ReturnedRecord(i) =>
        /\ Rec(i).content_type = "error" =>
                Rec(i).content = EmptyStr /\ Rec(i).error # None
        /\ Rec(i).content_type # "error" => Rec(i).error = None

\* C1 (amended): content_type "error" implies empty content and a non-null
\* error; any other content_type implies a null error, except for a story
\* without URL, whose record has content_type "text" and the error note
\* "Story does not have a URL"
C1_ErrorInvariant ==
    \A i \in Inv : ReturnedRecord(i) =>
        /\ Rec(i).content_type = "error" =>
                Rec(i).content = EmptyStr /\ Rec(i).error # None
        /\ Rec(i).content_type # "error" =>
                IF UrlMissingOrEmpty(i)
                THEN /\ Rec(i).content_type = "text"
                     /\ Rec(i).error = Some("Story does not have a URL")
                ELSE Rec(i).error = None

\* a story found by title has no URL: text record with the error note
C1_Witness ==
    \E i \in Inv :
        /\ ReturnedRecord(i)
        /\ call[i].tool = "get_story_content_by_title"
        /\ UrlMissingOrEmpty(i)
        /\ Rec(i).content_type = "text"
        /\ Rec(i).error # None

\* C2: get_story_content never raises; it returns a record, and that record
\* is an error record with a non-null error whenever the item lookup failed
\* or an exception reached its handler
C2_NeverRaises ==
    \A i \in Inv : RanGetStoryContent(i) =>
        /\ result[i][1].ok
        /\ (story[i] = None \/ ConverterRaised(i)) =>
                Rec(i).content_type = "error" /\ Rec(i).error # None

\* the converter raised after a successful lookup and fetch
C2_Witness ==
    \E i \in Inv :
        /\ RanGetStoryContent(i)
        /\ story[i] # None
        /\ ConverterRaised(i)
        /\ result[i][1].ok
        /\ Rec(i).content_type = "error"

C4_NoFetchWithoutUrl ==
    \A i \in Inv : UrlMissingOrEmpty(i) =>
        /\ pc[i] = "done"
        /\ Count(trace[i], "GET url") = 0
        /\ Count(trace[i], "GET item") = 1
        /\ Len(trace[i]) = 1
        /\ url_data[i] = None
        /\ http_reply[i] = None

\* a story whose url is the empty string returned without a fetch
C4_Witness ==
    \E i \in Inv :
        /\ ReturnedRecord(i)
        /\ story[i] # None
        /\ story[i][1].url = Some("")
        /\ Len(trace[i]) = 1

\* the story of slot i has inline text
HasInlineText(i) == story[i][1].text # None /\ story[i][1].text # Some(EmptyStr)

\* C5 (as stated): without URL the record has content_type "text", the error
\* note, and the inline text as content, or null/empty content when the story
\* has no inline text
C5_Original ==
    \A i \in Inv : (ReturnedRecord(i) /\ UrlMissingOrEmpty(i)) =>
        /\ Rec(i).content_type = "text"
        /\ Rec(i).error = Some("Story does not have a URL")
        /\ Rec(i).content = IF HasInlineText(i) THEN story[i][1].text[1] ELSE EmptyStr

\* C5 (amended): without URL the record has content_type "text", the error
\* note, and the inline text as content, or the string "No content available"
\* when the inline text is missing or empty
C5_NoUrlRecord ==
    \A i \in Inv : (ReturnedRecord(i) /\ UrlMissingOrEmpty(i)) =>
        /\ Rec(i).content_type = "text"
        /\ Rec(i).error = Some("Story does not have a URL")
        /\ Rec(i).content = IF HasInlineText(i) THEN story[i][1].text[1]
                            ELSE Str("No content available")

\* a story with neither URL nor inline text got the placeholder string
C5_Witness ==
    \E i \in Inv :
        /\ ReturnedRecord(i)
        /\ UrlMissingOrEmpty(i)
        /\ story[i][1].text = None
        /\ Rec(i).content = Str("No content available")

\* the fetcher's result in slot i, once fetch_url_content returned
Fetched(i) == url_data[i][1].value
FetcherReturned(i) == Done(i) /\ url_data[i] # None /\ url_data[i][1].ok

\* C6: a fetcher error is propagated unchanged: content_type "error", empty
\* content, the fetcher's error message, and neither extractor nor converter runs
C6_FetchErrorPropagated ==
    \A i \in Inv : (FetcherReturned(i) /\ Fetched(i).content_type = "error") =>
        /\ result[i][1].ok
        /\ Rec(i).content_type = "error"
        /\ Rec(i).content = EmptyStr
        /\ Rec(i).error = Fetched(i).error
        /\ Count(trace[i], "extract_main_content") = 0
        /\ Count(trace[i], "html_to_markdown") = 0

\* a timeout, whose message is the empty string, was propagated as it is
C6_Witness ==
    \E i \in Inv :
        /\ FetcherReturned(i)
        /\ Fetched(i).content_type = "error"
        /\ Fetched(i).error = Some("")
        /\ Rec(i).error = Some("")

\* media types compare case-insensitively
LowerPiece(p) == IF p = "Text/HTML" THEN "text/html" ELSE p

\* the response of slot i declares media type mt
DeclaresMediaType(i, mt) ==
    /\ http_reply[i][1].ct # None
    /\ [k \in DOMAIN http_reply[i][1].ct[1].mtype |->
            LowerPiece(http_reply[i][1].ct[1].mtype[k])] = << mt >>

\* C7: for a successful response that the fetcher does not classify as html
\* the content is the raw response body, the content_type is the fetcher's
\* kind (json or text), for both formats, and nothing is extracted or converted
C7_NonHtmlVerbatim ==
    \A i \in Inv :
        (FetcherReturned(i) /\ GetSucceeded(i) /\ Fetched(i).content_type # "html") =>
            /\ result[i][1].ok
            /\ Rec(i).content = http_reply[i][1].body
            /\ Rec(i).content_type = Fetched(i).content_type
            /\ Rec(i).content_type \in {"json", "text"}
            /\ Rec(i).error = None
            /\ Len(trace[i]) = 2

\* an HTML page served as text/plain came back untouched under format markdown
C7_Witness ==
    \E i \in Inv :
        /\ FetcherReturned(i)
        /\ GetSucceeded(i)
        /\ DeclaresMediaType(i, "text/plain")
        /\ call[i].format = "markdown"
        /\ http_reply[i][1].body = PageArticle
        /\ Rec(i).content = PageArticle
        /\ Rec(i).content_type = "text"

\* the pipeline steps of slot i, without the two requests
Steps(i) == SubSeq(trace[i], 3, Len(trace[i]))

\* C8: for a response of kind html the content is Converter(Extractor(body)) with
\* content_type "markdown" under format markdown and Extractor(body) with
\* content_type "html" otherwise; the extractor runs first and the converter
\* runs on the extractor's output only
C8_HtmlPipeline ==
    \A i \in Inv :
        (FetcherReturned(i) /\ GetSucceeded(i) /\ Fetched(i).content_type = "html") =>
            LET body == http_reply[i][1].body
                extracted == extract_main_content(body)
            IN /\ Len(Steps(i)) >= 1
               /\ Steps(i)[1] = Event("extract_main_content", body, extracted)
               /\ IF call[i].format = "markdown"
                  THEN /\ Len(Steps(i)) = 2
                       /\ Steps(i)[2].op = "html_to_markdown"
                       /\ Steps(i)[2].arg = extracted
                       /\ ~ConverterRaises(extracted) =>
                            /\ result[i][1].ok
                            /\ Rec(i).content = html_to_markdown(extracted)
                            /\ Rec(i).content = Steps(i)[2].ret
                            /\ Rec(i).content_type = "markdown"
                  ELSE /\ Len(Steps(i)) = 1
                       /\ result[i][1].ok
                       /\ Rec(i).content = extracted
                       /\ Rec(i).content_type = "html"

\* a page with navigation and an article was extracted, then converted, and
\* the result differs from converting the unextracted page
C8_Witness ==
    \E i \in Inv :
        /\ FetcherReturned(i)
        /\ GetSucceeded(i)
        /\ http_reply[i][1].body = PageArticle
        /\ DeclaresMediaType(i, "text/html")
        /\ call[i].format = "markdown"
        /\ Rec(i).content_type = "markdown"
        /\ Rec(i).content = html_to_markdown(extract_main_content(PageArticle))
        /\ Rec(i).content # html_to_markdown(PageArticle)
        /\ extract_main_content(PageArticle) # PageArticle

\* C9: a successful response is classified by its declared media type: html
\* for text/html, json for application/json, text for every other media type
\* or a missing header; body verbatim, url the final URL
C9_ClassifiedByMediaType ==
    \A i \in Inv : (url_data[i] # None /\ url_data[i][1].ok /\ GetSucceeded(i)) =>
        /\ Fetched(i).content_type =
                IF DeclaresMediaType(i, "text/html") THEN "html"
                ELSE IF DeclaresMediaType(i, "application/json") THEN "json"
                ELSE "text"
        /\ Fetched(i).content = http_reply[i][1].body
        /\ Fetched(i).url = http_reply[i][1].url

\* C10: an invocation of get_story_content makes exactly one item lookup and
\* at most one GET of the story URL; a story that an earlier invocation already
\* served is looked up again, and fetched again when it has a URL
C10_SingleAttemptNoCache ==
    \A i \in Inv :
        /\ Count(trace[i], "GET item") <= 1
        /\ Count(trace[i], "GET url") <= 1
        /\ RanGetStoryContent(i) =>
            /\ Count(trace[i], "GET item") = 1
            /\ (story[i] # None /\ ~UrlMissingOrEmpty(i)) =>
                    Count(trace[i], "GET url") = 1 /\ http_reply[i] # None
            /\ (story[i] = None \/ UrlMissingOrEmpty(i)) =>
                    Count(trace[i], "GET url") = 0

\* a story served before was looked up and fetched again, and the fetch failed
\* without a second attempt
C10_Witness ==
    \E i \in Inv :
        /\ RanGetStoryContent(i)
        /\ call[i].story_id \in served
        /\ GetFailed(i)
        /\ Count(trace[i], "GET item") = 1
        /\ Count(trace[i], "GET url") = 1

\* ----- idempotence and concurrency -----

Alone(id, format, lookup, got_url) ==
    LET got == get_item(id, lookup)
    IN IF ~got.ok THEN ExceptException(id, got)
       ELSE IF HasNoUrl(got.value)
            THEN ExceptException(id, Returned(NoUrlResponse(got.value, id)))
            ELSE LET fetched == fetch_url_content(got.value.url[1], got_url[1])
                 IN ExceptException(id,
                        IF ~fetched.ok THEN fetched
                        ELSE Process(got.value, id, format, fetched.value))

\* C12: with two get_story_content calls in flight, resumed in any order at
\* the item lookup and at the URL fetch, each call returns what it would
\* return run alone with the outcomes it met
C12_Independent ==
    \A i \in DOMAIN pc :
        (pc[i] = "done" /\ call[i].tool = "get_story_content") =>
            result[i][1] = Alone(call[i].story_id, call[i].format,
                                 item_reply[i][1], http_reply[i])

\* one call has returned a converted page while a call for another story,
\* looked up already, waits for its GET
C12_Witness ==
    /\ DOMAIN pc = ConcInv
    /\ pc["c1"] = "done" /\ pc["c2"] = "fetch_url_content"
    /\ call["c1"].story_id # call["c2"].story_id
    /\ story["c1"] # None /\ story["c2"] # None /\ story["c1"] # story["c2"]
    /\ result["c1"][1].ok /\ result["c1"][1].value.content_type = "markdown"

\* ----- extract_main_content -----

\* extract_main_content has returned
Extracted == page.pc = "returned"
In == page.html_content
Out == page.extracted[1]

\* no exception occurs: the parser takes the document
Accepted(d) == \A k \in DOMAIN d : d[k].tag # "#rejected"

BoilerplateTags == {"nav", "header", "footer", "aside", "script", "style", "iframe"}
HintWords == {"ads", "navigation", "menu", "sidebar", "comments"}
Boilerplate(n) == n.tag \in BoilerplateTags \/ n.cls \cap HintWords # {}

\* node k of d is a boilerplate element or inside one
InBoilerplate(d, k) == \E r \in DOMAIN d : Boilerplate(d[r]) /\ InSubtree(d, k, r)
Left(d) == {k \in DOMAIN d : ~InBoilerplate(d, k)}
Under(d, r) == {k \in DOMAIN d : InSubtree(d, k, r)}
Texts(d) == {d[k].txt : k \in DOMAIN d}

\* C13 as stated: when no exception occurs the output holds, at any depth, no
\* nav, header, footer, aside, script, style or iframe element and no element
\* whose class or id is one of ads, navigation, menu, sidebar, comments
C13_Original ==
    (Extracted /\ Accepted(In)) =>
        \A k \in DOMAIN Out :
            /\ Out[k].tag \notin BoilerplateTags
            /\ Out[k].cls \cap HintWords = {}
            /\ Out[k].id \notin HintWords

\* C13: when no exception occurs the output holds, at any depth, no nav,
\* header, footer, aside, script, style or iframe element and no element one
\* of whose classes is ads, navigation, menu, sidebar or comments
C13_NoBoilerplate ==
    (Extracted /\ Accepted(In)) =>
        \A k \in DOMAIN Out :
            /\ Out[k].tag \notin BoilerplateTags
            /\ Out[k].cls \cap HintWords = {}

\* a document with a nav and, nested in another element, an element of class
\* ads was extracted to something
C13_Witness ==
    /\ Extracted /\ Accepted(In) /\ Out # EmptyStr
    /\ \E i, j \in DOMAIN In :
            In[i].tag = "nav" /\ "ads" \in In[j].cls /\ In[j].parent # 0

\* C14: the output is the serialization of the first element found trying
\* article, main, .content, .post, .article, #content, #main in this order,
\* whatever the elements' places in the document; with none found it is
\* the body, and with no body all that is left of the document
C14_SelectorPriority ==
    (Extracted /\ Accepted(In)) =>
        LET hits(j) == {k \in Left(In) : Matches(In[k], ContentSelectors[j])}
            found == {j \in DOMAIN ContentSelectors : hits(j) # {}}
            bodies == {k \in Left(In) : In[k].tag = "body"}
        IN IF found # {}
           THEN Out = Serialize(In, Left(In) \cap Under(In, Min(hits(Min(found)))))
           ELSE IF bodies # {}
                THEN Out = Serialize(In, Left(In) \cap Under(In, Min(bodies)))
                ELSE Out = Serialize(In, Left(In))

\* a main element precedes an article beside it, and the article is returned
C14_Witness ==
    /\ Extracted /\ Accepted(In) /\ Len(In) >= 2
    /\ In[1].tag = "main" /\ In[2].tag = "article" /\ In[2].parent = 0
    /\ Out # EmptyStr /\ Out[1].tag = "article"

\* the document has a body and no element any content selector matches
BodyNoContainer(d, nodes) ==
    /\ \E k \in nodes : d[k].tag = "body"
    /\ \A k \in nodes, j \in DOMAIN ContentSelectors : ~Matches(d[k], ContentSelectors[j])
FirstBody(d, nodes) == Min({k \in nodes : d[k].tag = "body"})

\* C15 as stated: for HTML with a body but no recognizable content container
\* the output is the body with its contents unchanged
C15_Original ==
    (Extracted /\ Accepted(In) /\ BodyNoContainer(In, DOMAIN In)) =>
        Out = Serialize(In, Under(In, FirstBody(In, DOMAIN In)))

\* C15: when boilerplate removal leaves a body and no recognizable content
\* container, the output is the first body left, with what is left of its
\* contents
C15_BodyFallback ==
    (Extracted /\ Accepted(In) /\ BodyNoContainer(In, Left(In))) =>
        Out = Serialize(In, Left(In) \cap Under(In, FirstBody(In, Left(In))))

\* a body holding a paragraph and an element of class ads came back as the
\* body and the paragraph
C15_Witness ==
    /\ Extracted /\ Len(In) = 3 /\ Len(Out) = 2
    /\ In[1].tag = "body" /\ In[2].tag = "p" /\ In[2].parent = 1
    /\ "ads" \in In[3].cls /\ In[3].parent = 1
    /\ Out[1].tag = "body" /\ Out[2].tag = "p" /\ Out[2].parent = 1

\* C16: when parsing raises, the exception is caught and the input HTML is
\* returned as it was
C16_InputOnException ==
    (Extracted /\ ~Accepted(In)) => Out = In

\* markup the parser rejects, with a nav in it, came back whole
C16_Witness ==
    /\ Extracted /\ ~Accepted(In) /\ Out = In
    /\ \E k \in DOMAIN In : In[k].tag = "nav"

\* the document holds a nav, a script and an article with text Hello world
HasTrio(d) ==
    /\ \E k \in DOMAIN d : d[k].tag = "nav"
    /\ \E k \in DOMAIN d : d[k].tag = "script"
    /\ \E k \in DOMAIN d : d[k].tag = "article" /\ d[k].txt = "Hello world"

\* the output has the article's text and neither the nav's nor the script's
HelloOnly ==
    /\ "Hello world" \in Texts(Out)
    /\ \A k \in DOMAIN In : In[k].tag \in {"nav", "script"} => In[k].txt \notin Texts(Out)

\* C17 as stated: for a document with a nav, a script and an article with
\* text Hello world, however arranged or nested, the output has Hello world
\* and neither the nav's nor the script's text
C17_Original == (Extracted /\ HasTrio(In)) => HelloOnly

\* C17: the same for a document the parser takes whose first article outside
\* every boilerplate element is the one with text Hello world
C17_ArticleKept ==
    LET free == {k \in Left(In) : In[k].tag = "article"}
    IN (/\ Extracted /\ Accepted(In) /\ HasTrio(In)
        /\ free # {} /\ In[Min(free)].txt = "Hello world") => HelloOnly

\* an article holding the nav and the script came back alone
C17_Witness ==
    /\ Extracted /\ Len(In) = 3 /\ HasTrio(In)
    /\ In[1].tag = "article" /\ In[2].parent = 1 /\ In[3].parent \in {1, 2}
    /\ Len(Out) = 1 /\ Out[1].txt = "Hello world"

\* ----- the exception record and the content kinds -----

\* C18: when an exception reaches the handler of get_story_content after the
\* item lookup succeeded, the error record keeps the metadata known by then:
\* title, author, timestamp, score and comment count
C18_MetadataPreserved ==
    \A i \in Inv :
        (RanGetStoryContent(i) /\ story[i] # None /\ ConverterRaised(i)) =>
            /\ result[i][1].ok
            /\ Rec(i).content_type = "error"
            /\ story[i][1].title # None => Rec(i).title = story[i][1].title[1]
            /\ Rec(i).by = story[i][1].by
            /\ Rec(i).time = story[i][1].time
            /\ Rec(i).score = story[i][1].score
            /\ Rec(i).descendants = story[i][1].descendants

CapOf(tool) ==
    IF tool \in {"get_top_stories", "get_new_stories", "get_best_stories"}
    THEN 500 ELSE 200

\* a story-list tool called with an integer limit got a list from upstream
\* and is through
ListServed ==
    /\ listing.pc = "done" /\ listing.arg # None
    /\ listing.reply # None /\ listing.reply[1].kind = "json"

\* the first n elements of l: none for n below one, all for n above Len(l)
FirstIds(l, n) == SubSeq(l, 1, IF n > Len(l) THEN Len(l) ELSE n)

\* C20: a story-list tool makes exactly one upstream call and, for every
\* integer limit, returns the first min(limit, cap) ids in upstream order,
\* never more than limit and never more than cap; cap is 500 for top, new
\* and best and 200 for ask, show and job
C20_FirstMinLimitCap ==
    ListServed =>
        LET cap == CapOf(listing.tool)
            limit == listing.arg[1]
            upstream == listing.reply[1].data[1]
        IN /\ listing.requests = 1
           /\ listing.result[1].ok
           /\ listing.result[1].value = FirstIds(upstream, IF limit < cap THEN limit ELSE cap)
           /\ Len(listing.result[1].value) <= cap
           /\ Len(listing.result[1].value) <= (IF limit < 0 THEN 0 ELSE limit)

\* the same with the limit not negative, which the code meets
ListsCappedFromZero == (ListServed /\ listing.arg[1] >= 0) => C20_FirstMinLimitCap

\* limit 501 on a list of 501 ids gave 500 ids from get_top_stories and
\* limit 201 on a list of 201 gave 200 from get_ask_stories
ListsCapReached ==
    /\ ListServed
    /\ \/ listing.tool = "get_top_stories" /\ listing.arg = Some(501)
          /\ Len(listing.reply[1].data[1]) = 501 /\ Len(listing.result[1].value) = 500
       \/ listing.tool = "get_ask_stories" /\ listing.arg = Some(201)
          /\ Len(listing.reply[1].data[1]) = 201 /\ Len(listing.result[1].value) = 200

\* ----- get_item and get_user -----

TaskDone(tool) == task.pc = "done" /\ task.tool = tool
TaskResult == task.result[1]

\* the names of the fields of a record of each kind
ItemFields ==
    {"id", "type", "deleted", "by", "time", "text", "dead", "kids", "url", "score",
     "title", "descendants"}
UserFields == {"id", "created", "karma", "about", "submitted"}

\* the lookup came to `kind`; for a JSON object the record returned has its
\* fields, for null and {} the exception raised is `missing`
LookedUp(fields, endpoint, missing) ==
    /\ task.calls = << endpoint >>
    /\ task.replies[1].kind = "json" =>
            /\ TaskResult.ok
            /\ \A f \in fields : TaskResult.value[f] = task.replies[1].data[1][f]
    /\ task.replies[1].kind \in {"null", "empty"} =>
            ~TaskResult.ok /\ TaskResult.exc = missing

\* C21: get_item(id) and get_user(id) make exactly one upstream call, to
\* item/{id}.json and user/{id}.json, and return a record with the upstream
\* fields; for null or an empty object they raise a not-found error that
\* names the id
C21_LookupOrNotFound ==
    /\ TaskDone("get_item") =>
            LookedUp(ItemFields, "item/" \o ToString(task.id) \o ".json",
                     "Item with ID " \o ToString(task.id) \o " not found")
    /\ TaskDone("get_user") =>
            LookedUp(UserFields, "user/" \o task.name \o ".json",
                     "User with ID " \o task.name \o " not found")

\* get_user raised not-found for an empty object
C21_Witness ==
    /\ TaskDone("get_user")
    /\ task.replies[1].kind = "empty"
    /\ ~TaskResult.ok
    /\ TaskResult.exc = "User with ID " \o task.name \o " not found"

\* ----- get_story_with_comments -----

\* get_story_with_comments is through and its story lookup came to a record
StoryServed ==
    /\ TaskDone("get_story_with_comments")
    /\ task.replies[1].kind = "json"

\* C22: the result of get_story_with_comments has the story's own fields (id,
\* title, ...) at its top level, and a fetched_comments list with the fetched
\* comment records
C22_StoryFieldsAtTop ==
    StoryServed =>
        /\ TaskResult.ok
        /\ ItemFields \cup {"fetched_comments"} \subseteq DOMAIN TaskResult.value
        /\ \A f \in ItemFields \cap DOMAIN TaskResult.value :
                TaskResult.value[f] = task.replies[1].data[1][f]

RECURSIVE Successes(_, _)
\* of the replies to the kid lookups, the records of those that came to one
Successes(ids, replies) ==
    IF ids = << >> \/ replies = << >> THEN << >>
    ELSE LET found == IF replies[1].kind = "json" THEN << replies[1].data[1] >> ELSE << >>
         IN found \o Successes(Tail(ids), Tail(replies))

\* the comments of a finished call, under the key the code gives them
Comments == TaskResult.value.comments

\* the first comment_limit kids of the looked-up story
FirstKids ==
    LET kids == task.replies[1].data[1].kids
    IN IF kids = None THEN << >> ELSE FirstIds(kids[1], task.limit)

\* C24: the comments are the records of the first comment_limit kids, in kids
\* order, without those whose lookup failed: never more than comment_limit;
\* a failure of the story lookup is raised
C24_CommentsInKidsOrder ==
    TaskDone("get_story_with_comments") =>
        IF task.replies[1].kind # "json"
        THEN ~TaskResult.ok /\ Len(task.calls) = 1
        ELSE /\ TaskResult.ok
             /\ task.calls = << "item/" \o ToString(task.id) \o ".json" >>
                    \o [j \in DOMAIN FirstKids |->
                            "item/" \o ToString(FirstKids[j]) \o ".json"]
             /\ Comments = Successes(FirstKids, Tail(task.replies))
             /\ Len(Comments) <= (IF task.limit < 0 THEN 0 ELSE task.limit)

\* the same with a comment_limit of zero or more, which the code meets
CommentsFromZero ==
    (TaskDone("get_story_with_comments") /\ task.limit >= 0) => C24_CommentsInKidsOrder

\* of three kids and a comment_limit of 2, the first kid failed and the
\* second came back alone
CommentsSkipped ==
    /\ StoryServed /\ task.limit = 2
    /\ task.replies[1].data[1].kids = Some(<< 13, 11, 12 >>)
    /\ Len(task.replies) = 3 /\ task.replies[2].kind = "null"
    /\ Len(Comments) = 1 /\ Comments[1].id = 11

\* ----- the resource hn://top/{limit} -----

RECURSIVE IsSubsequence(_, _)
\* s is t with some elements left out
IsSubsequence(s, t) ==
    IF s = << >> THEN TRUE
    ELSE IF t = << >> THEN FALSE
    ELSE IF s[1] = t[1] THEN IsSubsequence(Tail(s), Tail(t))
    ELSE IsSubsequence(s, Tail(t))

\* the resource is through and its top list came to a list
TopServed ==
    /\ TaskDone("top_stories_resource")
    /\ task.replies[1].kind = "json"

\* the ids of the records under `stories`
StoriesIds == [j \in DOMAIN TaskResult.value.stories |-> TaskResult.value.stories[j].id]

\* C23: the resource returns under story_ids every id of the upstream top
\* list, not cut to limit, and under stories the records of the first
\* min(limit, 10) of them only, in list order
C23_AllIdsFirstStories ==
    TopServed =>
        LET top == task.replies[1].data[1]
            first == FirstIds(top, IF task.limit < FullStories THEN task.limit ELSE FullStories)
        IN /\ TaskResult.ok
           /\ TaskResult.value.story_ids = top
           /\ IsSubsequence(StoriesIds, first)
           /\ task.calls = << "topstories.json" >>
                    \o [j \in DOMAIN first |-> "item/" \o ToString(first[j]) \o ".json"]

\* what the code returns instead: story_ids cut to the first limit ids
StoryIdsCutToLimit ==
    (TopServed /\ task.limit >= 0) =>
        LET top == task.replies[1].data[1]
            first == FirstIds(top, IF task.limit < FullStories THEN task.limit ELSE FullStories)
        IN /\ TaskResult.ok
           /\ TaskResult.value.story_ids = FirstIds(top, task.limit)
           /\ IsSubsequence(StoriesIds, first)
           /\ task.calls = << "topstories.json" >>
                    \o [j \in DOMAIN first |-> "item/" \o ToString(first[j]) \o ".json"]

\* a limit of 11 on a list of 12: eleven ids and ten records
TenFullStories ==
    /\ TopServed /\ task.limit = 11
    /\ Len(TaskResult.value.story_ids) = 11
    /\ Len(TaskResult.value.stories) = FullStories

\* ----- find_stories_by_title -----

\* find_stories_by_title is through and both lists came to a list
ListsServed ==
    /\ TaskDone("find_stories_by_title")
    /\ Len(task.replies) >= 2
    /\ task.replies[1].data # None /\ task.replies[2].data # None

\* ids without the repetitions of an earlier element
WithoutDuplicates(ids) ==
    LET new(j) == \A h \in 1..(j - 1) : ids[h] # ids[j]
        firsts == SelectSeq([j \in DOMAIN ids |-> j], new)
    IN [n \in DOMAIN firsts |-> ids[firsts[n]]]

\* the corpus of a finished search: the first 200 ids of the top list
\* followed by the new list, duplicates removed
SearchCorpus ==
    FirstIds(WithoutDuplicates(task.replies[1].data[1] \o task.replies[2].data[1]), 200)

\* the reply to the lookup of the j-th id of the corpus
LookupOf(j) == task.replies[j + 2]

\* the match rule on the reply to a lookup
IsMatch(reply, query) ==
    /\ reply.kind = "json"
    /\ reply.data[1].type = Some("story")
    /\ reply.data[1].title \notin {None, Some("")}
    /\ LET terms == Split(Lower(Chars(query)))
       IN \A n \in DOMAIN terms :
            IsSubstring(terms[n], Lower(Chars(reply.data[1].title[1])))

\* the ids looked up are a prefix of the corpus
Looked == Len(task.replies) - 2

\* the positions in the corpus, among those looked up, of the matching items
MatchedAt == {j \in 1..Looked : IsMatch(LookupOf(j), task.name)}

\* C25: find_stories_by_title returns the first limit elements, in corpus
\* order and without a repeated id, of the corpus filtered by the match rule;
\* a failed lookup is skipped, and no lookup is made once limit matches are
\* collected
C25_FirstMatchesOfCorpus ==
    ListsServed =>
        LET found == TaskResult.value
            corpus == SearchCorpus
        IN /\ TaskResult.ok
           /\ Looked <= Len(corpus)
           /\ task.calls = << "topstories.json", "newstories.json" >>
                    \o [j \in 1..Looked |-> "item/" \o ToString(corpus[j]) \o ".json"]
           /\ Len(found) = Cardinality(MatchedAt)
           /\ \A n \in DOMAIN found :
                \E j \in MatchedAt :
                    /\ Cardinality({h \in MatchedAt : h < j}) = n - 1
                    /\ found[n].id = corpus[j]
                    /\ found[n].title = LookupOf(j).data[1].title
           /\ \A n, m \in DOMAIN found : found[n].id = found[m].id => n = m
           /\ Len(found) <= (IF task.limit < 0 THEN 0 ELSE task.limit)
           /\ \/ Looked = Len(corpus)
              \/ Len(found) >= task.limit /\ (Looked > 0 => IsMatch(LookupOf(Looked), task.name))

\* the corpus was cut at 200 and its last id matched, after the failed and
\* unmatched lookups before it
C25_Witness ==
    /\ ListsServed
    /\ Len(task.replies[1].data[1]) > 200 /\ Looked = 200
    /\ Len(TaskResult.value) = 1 /\ TaskResult.value[1].id = SearchCorpus[200]

\* of a corpus of two ids the first lookup failed and the second matched
FoundAfterFailure ==
    /\ ListsServed /\ Looked = 2 /\ task.limit = 1
    /\ LookupOf(1).kind = "http_error"
    /\ Len(TaskResult.value) = 1 /\ TaskResult.value[1].id = SearchCorpus[2]
    /\ task.replies[1].data[1] = << 1, 2, 1 >>

\* ----- search_by_date -----

\* search_by_date is in its loop or returned from it
Searching == task.tool = "search_by_date" /\ task.pc = "probe"
Searched == TaskDone("search_by_date") /\ TaskResult.ok

\* the item lookups of a search never exceed limit * 10, and what it returns
\* are at most limit items, each a story neither deleted nor dead
SearchBounded ==
    /\ (Searching /\ task.limit >= 0) => task.k < task.limit * 10
    /\ (Searched /\ task.limit >= 0) =>
            /\ task.k <= task.limit * 10
            /\ Len(TaskResult.value) <= task.limit
            /\ \A n \in DOMAIN TaskResult.value :
                    /\ TaskResult.value[n].type = Some("story")
                    /\ TaskResult.value[n].deleted \in {None, Some(FALSE)}
                    /\ TaskResult.value[n].dead \in {None, Some(FALSE)}

\* C26: for every limit >= 0, every days_ago and every pattern of lookup
\* failures, search_by_date terminates after at most limit * 10 item lookups
\* and returns at most limit items, each a story neither deleted nor dead
C26_SearchTerminatesBounded ==
    /\ []SearchBounded
    /\ (task.tool = "search_by_date" /\ task.pc # "done") ~> (task.pc = "done")

\* a search for two stories that used up its twenty lookups, ran into deleted
\* and dead stories and returned one story
C26_Witness ==
    /\ Searched /\ task.limit = 2 /\ task.k = 20
    /\ Len(TaskResult.value) = 1

\* the k-th id of the walk target, target + 1, target - 1, target + 2, ...
Outward(target, k) ==
    IF k = 0 THEN target
    ELSE IF k % 2 = 1 THEN target + (k + 1) \div 2
    ELSE target - k \div 2

\* C27: search_by_date probes target, target + 1, target - 1, target + 2, ...
\* in this order, each id at most once: the lookup after k lookups is of the
\* k-th id of the walk, also when lookups before it failed
C27_OutwardWalk ==
    Searching => task.current_id = Outward(task.target_id, task.k)

\* what the code keeps of the order: the id looked up after k lookups is one
\* of the first k + 1 ids of the walk
WalkWithGaps ==
    Searching => \E c \in 0..task.k : task.current_id = Outward(task.target_id, c)

\* C28: the result of search_by_date never holds the same item id twice,
\* whatever lookups failed, one that fails and succeeds when made again included
C28_NoRepeatedId ==
    Searched =>
        \A n, m \in DOMAIN TaskResult.value :
            TaskResult.value[n].id = TaskResult.value[m].id => n = m

\* two stories came back, the second from a lookup that had failed and
\* succeeded when made again
C28_Witness ==
    /\ Searched /\ Len(TaskResult.value) = 2
    /\ task.last = "retried"

\* ----- get_story_content_by_title -----

\* get_story_content_by_title is through
RanByTitle(i) == pc[i] = "done" /\ call[i].tool = "get_story_content_by_title"

\* the record for no match or no story: story_id 0, empty content, an error
NoStoryRecord(r) ==
    /\ r.story_id = 0
    /\ r.content = EmptyStr
    /\ r.content_type = "error"
    /\ r.error # None

\* C29: get_story_content_by_title never raises: without a match, and when
\* the story lists or the items cannot be fetched, it returns an error record
\* with story_id 0, empty content and a non-null error; otherwise what
\* get_story_content returns for the first match's id
C29_ByTitleNeverRaises ==
    \A i \in Inv : RanByTitle(i) =>
        /\ result[i][1].ok
        /\ call[i].story_id = 0 => NoStoryRecord(result[i][1].value)
        /\ call[i].story_id # 0 => result[i][1].value.story_id = call[i].story_id

\* what the code does: it raises exactly when a story list could not be
\* fetched or came as null, before the second list or any item is asked for
ByTitleRaisesOnLists ==
    \A i \in Inv : RanByTitle(i) =>
        /\ ~result[i][1].ok <=> (call[i].story_id = 0 /\ find[i].requests <= 2
                                    /\ find[i].all_ids = << >> /\ find[i].k = 0)
        /\ result[i][1].ok => C29_ByTitleNeverRaises

\* every item of the corpus failed or did not match: the "Not found" record
ByTitleNotFound ==
    \E i \in Inv :
        /\ RanByTitle(i) /\ result[i][1].ok
        /\ find[i].requests = 4
        /\ NoStoryRecord(result[i][1].value)

\* ----- setup and teardown -----

\* request handling has stopped: no tool invocation is in progress and none
\* can begin
HandlingStopped ==
    /\ life.tools = 0 /\ life.api = 0
    /\ life.mcp # "running"
    /\ life.pc \notin {"mcp.run", "uvicorn.run", "draining"}

\* C30: teardown closes the shared HTTP client only after request handling
\* has stopped: in neither transport mode does a tool invocation issue a
\* request after teardown closed the client, and the client is closed at most
\* once
C30_ClosedAfterHandling ==
    /\ life.client = "closed" => HandlingStopped
    /\ life.late = 0
    /\ life.closed <= 1

\* what holds in both modes: the client is closed at most once, no route of
\* the app is being served when it is closed, and with the stdio transport
\* request handling has stopped by then
ClosedOnceAfterRoutes ==
    /\ life.closed <= 1
    /\ life.client = "closed" => life.api = 0 /\ life.pc \in {"torn down", "exited"}
    /\ life.transport = "stdio" =>
            /\ life.late = 0
            /\ life.client = "closed" => HandlingStopped

\* stdio: requests went out, the server stopped and the client was closed once
StdioTornDown ==
    /\ life.transport = "stdio" /\ life.pc = "torn down"
    /\ life.sent > 0 /\ life.closed = 1

\* sse: a tool invoked through the MCP server met the closed client
LateRequest ==
    /\ life.transport = "sse" /\ life.late > 0

====
